---------------------------- MODULE Spec2Model ----------------------------
(***************************************************************************)
(* A model of the MARS ranking engine (src/mars): run_mars and the stages  *)
(* it orchestrates.                                                         *)
(*                                                                         *)
(* Numbers.  The program computes in IEEE doubles; the model computes in   *)
(* fixed point.  A real x is the integer x * ONE (three decimals) unless a *)
(* definition says otherwise; logarithms and exponentials carry four       *)
(* decimals (LNS).  Every product is arranged to stay below 2^31.          *)
(* An undefined value (numpy's NaN) is the sentinel NaN.                    *)
(***************************************************************************)
EXTENDS Integers, Sequences, FiniteSets, TLC

VARIABLES
    nan_filter,    \* the call of filter_wr_nan_iterative: its arguments and locals
    filtered_wr,   \* input: the T x T winrate matrix (percent), a data frame
    n_dir,         \* input: the T x T volume matrix, a data frame
    score_flat,    \* input: None, or the flat table of rows (Deck A, Deck B, W, L)
    top_meta_df,   \* input: None, or the usage table
    cfg,           \* input: the configuration (MARSConfig)
    pc,            \* the statement of run_mars that runs next
    stages,        \* history: the stages that have run, in order
    err,           \* the exception run_mars raised, or "none"
    v,             \* validate_contract's result {ok, issues}
    meta,          \* blend_meta's result
    mats,          \* the W/L/N matrices derived from score_flat (S, F, N)
    auto_k,        \* auto_k_cv's result
    post,          \* posterior_dir's result (p_hat, var_hat)
    mas_df,        \* mas_se_lb's result
    bt,            \* bt_soft's state and result
    score_pct,     \* compose's result
    cov,           \* coverage_tables' result
    ranking,       \* the ranking run_mars returns
    rng,           \* the state of the process's bootstrap generator
    run,           \* which execution of run_mars this is (1 or 2)
    first          \* what the first execution returned, kept for the second

vars == <<nan_filter, filtered_wr, n_dir, score_flat, top_meta_df, cfg, pc, stages, err, v,
          meta, mats, auto_k, post, mas_df, bt, score_pct, cov, ranking, rng,
          run, first>>

-----------------------------------------------------------------------------
(* Fixed-point arithmetic *)

\* The fixed-point unit: 1.0
ONE == 10 * 100
\* The unit of logarithms and exponentials: 1.0
LNS == 10 * ONE

NaN == -999999
None == [none |-> TRUE]
\* The state of the bootstrap generator before any call has created one
NoRng == -1

IsNaN(x) == x = NaN
Max(a, b) == IF a >= b THEN a ELSE b
Min(a, b) == IF a <= b THEN a ELSE b
Abs(a) == IF a >= 0 THEN a ELSE -a
\* numpy.clip(x, lo, hi) = minimum(maximum(x, lo), hi): hi wins when lo > hi
Clip(x, lo, hi) == Min(Max(x, lo), hi)

\* a / b rounded to the nearest integer, ties to the even one (Python's round),
\* for a >= 0 and b > 0
RoundDiv(a, b) ==
    LET q == a \div b
        r == a % b
    IN  IF 2 * r < b THEN q
        ELSE IF 2 * r > b THEN q + 1
        ELSE IF q % 2 = 0 THEN q ELSE q + 1

\* a / b truncated toward zero, for b > 0 (the model's division of signed reals)
Quot(a, b) == IF a >= 0 THEN a \div b ELSE -((-a) \div b)

RECURSIVE SqrtIter(_, _)
SqrtIter(n, x) ==
    LET y == (x + n \div x) \div 2
    IN  IF y >= x THEN x ELSE SqrtIter(n, y)
\* floor(sqrt(n)) by Newton's iteration
ISqrt(n) == IF n <= 0 THEN 0 ELSE IF n < 4 THEN 1 ELSE SqrtIter(n, n \div 2)

RECURSIVE Log2Floor(_)
Log2Floor(x) == IF x < 2 THEN 0 ELSE 1 + Log2Floor(x \div 2)
RECURSIVE Pow2(_)
Pow2(k) == IF k = 0 THEN 1 ELSE 2 * Pow2(k - 1)

RECURSIVE AtanhSeries(_, _, _, _)
\* t + t^3/3 + t^5/5 + ... from the term t^k on, t and the sum in units of 1/LNS
AtanhSeries(term, t2, k, acc) ==
    IF term = 0 \/ k > 15 THEN acc
    ELSE AtanhSeries((term * t2) \div LNS, t2, k + 2, acc + RoundDiv(term, k))

\* ln(x / ONE) in units of 1/LNS, for x > 0:
\* x = m * 2^k with 1 <= m < 2 and ln m = 2 atanh((m - 1) / (m + 1));
\* ln 2 = 0.69315 and ln 1000 = 6.90776
Ln(x) ==
    LET k  == Log2Floor(x)
        sh == IF k > 16 THEN Pow2(k - 16) ELSE 1
        xs == x \div sh
        p  == Pow2(k) \div sh
        t  == RoundDiv((xs - p) * LNS, xs + p)
        t2 == (t * t) \div LNS
    IN  ((k * 69315 - 690776 + 5) \div 10) + 2 * AtanhSeries(t, t2, 1, 0)

RECURSIVE ExpSeries(_, _, _, _)
\* 1 + r + r^2/2! + ... from the term r^k/k! on, in units of 1/LNS
ExpSeries(term, r, k, acc) ==
    IF term = 0 \/ k > 12 THEN acc
    ELSE ExpSeries((term * r) \div (LNS * k), r, k + 1, acc + term)

\* exp(y / LNS) in units of 1/LNS: y = k ln 2 + r with 0 <= r < ln 2 = 0.6931
Exp(y) ==
    LET k == y \div 6931
        r == y - k * 6931
        e == ExpSeries(LNS, r, 1, 0)
    IN  IF k >= 17 THEN 2000000000
        ELSE IF k >= 0 THEN e * Pow2(k)
        ELSE IF k <= -30 THEN 0 ELSE e \div Pow2(-k)

-----------------------------------------------------------------------------
(* Sequences, sums and data frames *)

Range(s) == {s[i] : i \in 1..Len(s)}

RECURSIVE SumSeq(_)
SumSeq(s) == IF s = <<>> THEN 0 ELSE Head(s) + SumSeq(Tail(s))

\* The sum of f over the positions of the sequence of labels ax
SumOver(ax, f(_)) == SumSeq([i \in 1..Len(ax) |-> f(ax[i])])

\* fillna(0.0)
Fill0(x) == IF IsNaN(x) THEN 0 ELSE x

\* A data frame: its row labels, its column labels and its cells by label
Frame(ix, cols, f(_, _)) ==
    [index |-> ix, columns |-> cols,
     val |-> [rc \in Range(ix) \X Range(cols) |-> f(rc[1], rc[2])]]

\* df.loc[r, c]
Loc(df, r, c) == df.val[<<r, c>>]

\* df.reindex(index=axis, columns=axis): an absent label gives NaN
Reindex(df, ax) ==
    Frame(ax, ax, LAMBDA r, c :
        IF r \in Range(df.index) /\ c \in Range(df.columns) THEN Loc(df, r, c) ELSE NaN)

\* np.diag(df.values): the cells at the positions (i, i)
Diag(df) ==
    [i \in 1..Min(Len(df.index), Len(df.columns)) |-> Loc(df, df.index[i], df.columns[i])]

-----------------------------------------------------------------------------
(* validate_io.validate_contract *)

\* (filtered_wr + filtered_wr.T): aligned on labels, NaN where either side is
WrSum(wr, r, c) ==
    IF /\ r \in Range(wr.index) /\ c \in Range(wr.columns)
       /\ c \in Range(wr.index) /\ r \in Range(wr.columns)
       /\ ~IsNaN(Loc(wr, r, c)) /\ ~IsNaN(Loc(wr, c, r))
    THEN Loc(wr, r, c) + Loc(wr, c, r) ELSE NaN

WrSymmetryOff(wr) ==
    LET labels == Range(wr.index) \cup Range(wr.columns)
    IN  \E r \in labels, c \in labels :
            /\ ~IsNaN(WrSum(wr, r, c))
            /\ Abs(WrSum(wr, r, c) - 100 * ONE) > ONE

\* (n_dir.fillna(0) - n_dir.T.fillna(0)).any(): a cell only one side has is NaN,
\* which counts as nonzero
NDirAsymmetric(nd) ==
    LET labels == Range(nd.index) \cup Range(nd.columns)
        here(r, c) == r \in Range(nd.index) /\ c \in Range(nd.columns)
    IN  \E r \in labels, c \in labels :
            \/ here(r, c) # here(c, r)
            \/ here(r, c) /\ here(c, r) /\ Fill0(Loc(nd, r, c)) # Fill0(Loc(nd, c, r))

DiagNotNaN(df) == \E i \in DOMAIN Diag(df) : ~IsNaN(Diag(df)[i])

ShapeOf(df) == <<Len(df.index), Len(df.columns)>>

\* "mismatch" in e
IsMismatch(e) == e \in {"shape mismatch", "axis mismatch"}

\* The issues in the order the checks run, each with the value it leaves in ok
ContractChecks(wr, nd) ==
    <<[hit |-> ShapeOf(wr) # ShapeOf(nd), fatal |-> TRUE, issue |-> "shape mismatch"],
      [hit |-> wr.index # nd.index \/ wr.columns # nd.columns,
       fatal |-> TRUE, issue |-> "axis mismatch"],
      [hit |-> DiagNotNaN(wr), fatal |-> TRUE, issue |-> "filtered_wr diag not NaN"],
      [hit |-> DiagNotNaN(nd), fatal |-> TRUE, issue |-> "n_dir diag not NaN"],
      [hit |-> WrSymmetryOff(wr), fatal |-> FALSE, issue |-> "WR symmetry off >1.0pp"],
      [hit |-> NDirAsymmetric(nd), fatal |-> FALSE, issue |-> "n_dir not symmetric"]>>

\* ok left to the final filter on "mismatch" alone
OkFlagMismatchOnly(checks) == TRUE

\* ok as the statements "ok = False" leave it
OkFlag(checks) == \A i \in 1..Len(checks) : ~(checks[i].hit /\ checks[i].fatal)

validate_contract(wr, nd) ==
    LET checks == ContractChecks(wr, nd)
        issues == SelectSeq([i \in 1..Len(checks) |->
                      IF checks[i].hit THEN checks[i].issue ELSE ""], LAMBDA e : e # "")
    IN  [ok |-> OkFlag(checks) /\ \A i \in 1..Len(issues) : ~IsMismatch(issues[i]),
         issues |-> issues]

-----------------------------------------------------------------------------
(* config.MARSConfig: the defaults, reals in units of 1/ONE *)

MU == 500
Z_PENALTY == 1200
ALPHA_COMPOSITE == 720
GAMMA_META_BLEND == 300
GAMMA_MIN == 100
GAMMA_MAX == 600
GAMMA_BASE == 100
GAMMA_SLOPE == 1500
K_MIN == 100
K_LO_USER == 50
K_HI_USER == 50000
RHO_TEST == 333
SEED == 42
REL_TOL_LL == 1
N_MIN_BT_TARGET == 5
BT_NEAR_BAND == 100
LAMBDA_RIDGE == 1500
\* 1e-6 and 1e-12 are below the model's resolution: the smallest tolerance it
\* can state, and zero
BT_TOL == 1
EPS == 0

\* The bootstrap count and the cap on MM sweeps the modelled runs are configured with
BootN == 4
MaxBtIter == 6

DefaultCfg ==
    [MU |-> MU, Z_PENALTY |-> Z_PENALTY, ALPHA_COMPOSITE |-> ALPHA_COMPOSITE,
     AUTO_GAMMA |-> FALSE, GAMMA_META_BLEND |-> GAMMA_META_BLEND,
     GAMMA_MIN |-> GAMMA_MIN, GAMMA_MAX |-> GAMMA_MAX, GAMMA_BASE |-> GAMMA_BASE,
     GAMMA_SLOPE |-> GAMMA_SLOPE, META_GAP_POLICY |-> "encounter",
     K_MIN |-> K_MIN, K_CONST_BOUNDS |-> <<K_LO_USER, K_HI_USER>>,
     RHO_TEST |-> RHO_TEST, BOOT_N |-> BootN, SEED |-> SEED,
     REL_TOL_LL |-> REL_TOL_LL, N_MIN_BT_TARGET |-> N_MIN_BT_TARGET,
     BT_SOFT_POWER |-> NaN, BT_NEAR_BAND |-> BT_NEAR_BAND,
     BT_USE_HARMONIC_N |-> TRUE, LAMBDA_RIDGE |-> LAMBDA_RIDGE,
     MAX_BT_ITER |-> MaxBtIter, BT_TOL |-> BT_TOL, EPS |-> EPS]

-----------------------------------------------------------------------------
(* meta.py: the meta weights.  A weight vector is a function on the axis.  *)

VecSum(ax, w) == SumOver(ax, LAMBDA d : w[d])

\* _normalize_weights without the guard on a total of zero: s / tot is then
\* NaN in every entry, which fillna(0.0) downstream would turn into zeros
NormalizeWeightsUnguarded(vals, ax, floor) ==
    LET s0  == [d \in Range(ax) |-> Fill0(vals[d])]
        s   == IF IsNaN(floor) THEN s0 ELSE [d \in Range(ax) |-> Max(s0[d], floor)]
        tot == VecSum(ax, s)
    IN  [d \in Range(ax) |-> IF tot <= 0 THEN 0 ELSE (s[d] * ONE) \div tot]

\* _normalize_weights: floor is NaN for Python's None
NormalizeWeights(vals, ax, floor) ==
    LET s0  == [d \in Range(ax) |-> Fill0(vals[d])]
        s   == IF IsNaN(floor) THEN s0 ELSE [d \in Range(ax) |-> Max(s0[d], floor)]
        tot == VecSum(ax, s)
    IN  IF tot <= 0
        THEN [d \in Range(ax) |-> ONE \div Max(Len(ax), 1)]
        ELSE [d \in Range(ax) |-> (s[d] * ONE) \div tot]

\* n_dir.sum(axis=0, skipna=True).reindex(axis).fillna(0.0)
ColSum(nd, ax) ==
    [c \in Range(ax) |->
        IF c \in Range(nd.columns)
        THEN SumOver(nd.index, LAMBDA r : Fill0(Loc(nd, r, c))) ELSE 0]

encounter_share(nd, ax) == NormalizeWeights(ColSum(nd, ax), ax, NaN)

DeckColNames == <<"Deck", "deck", "Deck Name", "DeckName", "Name", "Archetype", "Alias">>
ShareColNames ==
    <<"Share_frac", "Share_%", "Usage_%", "share_%", "usage_%", "Share", "Usage", "Meta_%">>

\* Python's None where a column name is expected
NoCol == ""

\* The first element of the sequence names that satisfies ok, or NoCol
FirstOf(names, ok(_)) ==
    LET hits == SelectSeq(names, ok) IN IF hits = <<>> THEN NoCol ELSE Head(hits)

\* A usage table: its column names, which of them hold numbers, and its rows
\* (each a function from a column name to the cell)
\* _pick_share_col
PickShareCol(df) ==
    LET named == FirstOf(ShareColNames, LAMBDA c : c \in Range(df.columns))
    IN  IF named # NoCol THEN named
        ELSE FirstOf(df.columns, LAMBDA c : c \in df.numeric)

\* df.empty: no row or no column
IsEmpty(df) == df.rows = <<>> \/ df.columns = <<>>

Uniform(ax) == [d \in Range(ax) |-> ONE \div Len(ax)]

\* pd.to_numeric(..., errors="coerce").fillna(0.0) of the share column, then the
\* percent rule: a maximum above 1 means the column is in percent
SharesOf(df, share_col) ==
    LET raw == [i \in 1..Len(df.rows) |->
                   IF share_col \in df.numeric THEN Fill0(df.rows[i][share_col]) ELSE 0]
        big == \E i \in 1..Len(raw) : raw[i] > ONE
    IN  [i \in 1..Len(raw) |-> IF big THEN raw[i] \div 100 ELSE raw[i]]

\* The shares of the table summed per deck and laid on the axis, zero for a
\* deck the table does not list: s.groupby(level=0).sum().reindex(idx).fillna(0.0);
\* all zero for a table meta_share_on_axis cannot read
OnAxisShares(ax, df) ==
    IF df = None \/ IsEmpty(df) THEN [d \in Range(ax) |-> 0]
    ELSE IF \/ FirstOf(DeckColNames, LAMBDA c : c \in Range(df.columns)) = NoCol
            \/ PickShareCol(df) = NoCol
    THEN [d \in Range(ax) |-> 0]
    ELSE [d \in Range(ax) |->
             SumSeq([i \in 1..Len(df.rows) |->
                 IF df.rows[i][FirstOf(DeckColNames, LAMBDA c : c \in Range(df.columns))] = d
                 THEN SharesOf(df, PickShareCol(df))[i] ELSE 0])]

\* meta_share_on_axis filling the gap in proportion to the listed shares whatever
\* the policy is
meta_share_proportional(ax, df, p_enc_for_gap, policy) ==
    IF df = None \/ IsEmpty(df) THEN Uniform(ax)
    ELSE
    LET deck_col  == FirstOf(DeckColNames, LAMBDA c : c \in Range(df.columns))
        share_col == PickShareCol(df)
    IN  IF deck_col = NoCol \/ share_col = NoCol THEN Uniform(ax)
        ELSE
        LET p == OnAxisShares(ax, df)
            s_on_axis == VecSum(ax, p)
            gap == Max(0, ONE - s_on_axis)
            q == IF gap > 0
                 THEN [d \in Range(ax) |-> p[d] + (gap * ((p[d] * ONE) \div s_on_axis)) \div ONE]
                 ELSE p
        IN  IF s_on_axis <= 0 THEN Uniform(ax)
            ELSE [d \in Range(ax) |-> (q[d] * ONE) \div VecSum(ax, q)]

meta_share_on_axis(ax, df, p_enc_for_gap, policy) ==
    IF df = None \/ IsEmpty(df) THEN Uniform(ax)
    ELSE
    LET deck_col  == FirstOf(DeckColNames, LAMBDA c : c \in Range(df.columns))
        share_col == PickShareCol(df)
    IN  IF deck_col = NoCol \/ share_col = NoCol THEN Uniform(ax)
        ELSE
        LET shares == SharesOf(df, share_col)
            \* s.groupby(level=0).sum().reindex(idx).fillna(0.0)
            p == [d \in Range(ax) |->
                     SumSeq([i \in 1..Len(df.rows) |->
                         IF df.rows[i][deck_col] = d THEN shares[i] ELSE 0])]
            s_on_axis == VecSum(ax, p)
            gap == Max(0, ONE - s_on_axis)
            wenc == [d \in Range(ax) |-> Fill0(p_enc_for_gap[d])]
            w == IF policy = "uniform" THEN Uniform(ax)
                 ELSE IF policy = "encounter" /\ p_enc_for_gap # None
                 THEN [d \in Range(ax) |->
                          IF VecSum(ax, wenc) > 0
                          THEN (wenc[d] * ONE) \div VecSum(ax, wenc) ELSE wenc[d]]
                 ELSE [d \in Range(ax) |-> (p[d] * ONE) \div s_on_axis]
            q == IF gap > 0 THEN [d \in Range(ax) |-> p[d] + (gap * w[d]) \div ONE] ELSE p
        IN  IF s_on_axis <= 0 THEN Uniform(ax)
            ELSE [d \in Range(ax) |-> (q[d] * ONE) \div VecSum(ax, q)]

\* blend_meta; the diagnostic correlation of info is not modelled
blend_meta(ax, nd, df, c) ==
    LET p_enc  == encounter_share(nd, ax)
        p_meta == meta_share_on_axis(ax, df, p_enc, c.META_GAP_POLICY)
        tv     == SumOver(ax, LAMBDA d : Abs(p_meta[d] - p_enc[d])) \div 2
        gamma  == IF c.AUTO_GAMMA
                  THEN Clip(c.GAMMA_BASE + (c.GAMMA_SLOPE * tv) \div ONE,
                            c.GAMMA_MIN, c.GAMMA_MAX)
                  ELSE c.GAMMA_META_BLEND
        floor  == IF c.AUTO_GAMMA THEN c.EPS ELSE NaN
        p      == [d \in Range(ax) |->
                      ((ONE - gamma) * p_meta[d] + gamma * p_enc[d]) \div ONE]
    IN  [p_weights |-> NormalizeWeights(p, ax, floor), p_enc |-> p_enc,
         p_meta |-> p_meta,
         info |-> [policy |-> c.META_GAP_POLICY, AUTO_GAMMA |-> c.AUTO_GAMMA,
                   gamma |-> gamma, tv |-> tv]]

-----------------------------------------------------------------------------
(* The inputs of a run *)

Axis == <<"X", "Y", "Z">>

\* The most games one pair has played in the swept data
MaxN == 6

Row(a, b, w, l) == [A |-> a, B |-> b, W |-> w, L |-> l]

\* The two rows of a pair of which a won w games and b won l
PairRows(a, b, wl) ==
    IF wl[1] + wl[2] = 0 THEN <<>>
    ELSE <<Row(a, b, wl[1], wl[2]), Row(b, a, wl[2], wl[1])>>

Games(n) == {<<w, n - w>> : w \in 0..n}

\* A table of usage shares with the columns Deck and Share_%
MetaTable(rows) ==
    [columns |-> <<"Deck", "Share_%">>, numeric |-> {"Share_%"},
     rows |-> [i \in 1..Len(rows) |->
                 [c \in {"Deck", "Share_%"} |->
                     IF c = "Deck" THEN rows[i][1] ELSE rows[i][2]]]]

\* The sum of column col over the rows of the flat table for the pair (a, b),
\* NaN when it has no such row: pivot_table(..., aggfunc="sum")
PivotSum(rows, a, b, col) ==
    LET hit == SelectSeq(rows, LAMBDA r : r.A = a /\ r.B = b)
    IN  IF hit = <<>> THEN NaN ELSE SumSeq([i \in 1..Len(hit) |-> hit[i][col]])

\* core.matrices.n_dir_from_WL over build_matrices: W + L with absent pairs 0
\* and the diagonal NaN
UpstreamNDir(rows, ax) ==
    Frame(ax, ax, LAMBDA a, b :
        IF a = b THEN NaN
        ELSE Fill0(PivotSum(rows, a, b, "W")) + Fill0(PivotSum(rows, a, b, "L")))

\* core.matrices.build_matrices: WR = 100 W / (W + L) where W + L > 0, the
\* diagonal NaN
UpstreamWR(rows, ax) ==
    Frame(ax, ax, LAMBDA a, b :
        LET w == Fill0(PivotSum(rows, a, b, "W"))
            l == Fill0(PivotSum(rows, a, b, "L"))
        IN  IF a = b \/ w + l = 0 THEN NaN ELSE (100 * ONE * w) \div (w + l))

Unset == None

\* The flat table of games: a row per ordered pair of decks
FlatTable(rows) == [columns |-> <<"Deck A", "Deck B", "W", "L">>, rows |-> rows]

\* The state of a process about to call run_mars on the given inputs
Start(wr, nd, sf, tm, c) ==
    /\ filtered_wr = wr /\ n_dir = nd /\ score_flat = sf /\ top_meta_df = tm
    /\ cfg = c
    /\ pc = "validate" /\ stages = <<>> /\ err = "none"
    /\ v = Unset /\ meta = Unset /\ mats = Unset /\ auto_k = Unset
    /\ post = Unset /\ mas_df = Unset /\ bt = Unset /\ score_pct = Unset
    /\ cov = Unset /\ ranking = Unset
    /\ rng = NoRng /\ run = 1 /\ first = Unset /\ nan_filter = Unset

\* A run on what the upstream stages build from the flat table
StartOn(rows, tm, c) ==
    Start(UpstreamWR(rows, Axis), UpstreamNDir(rows, Axis), FlatTable(rows), tm, c)

-----------------------------------------------------------------------------
(* auto_k_cv.py *)

RECURSIVE Insert(_, _)
Insert(x, s) ==
    IF s = <<>> THEN <<x>>
    ELSE IF x <= Head(s) THEN <<x>> \o s ELSE <<Head(s)>> \o Insert(x, Tail(s))
RECURSIVE Sorted(_)
\* The sequence s in ascending order
Sorted(s) == IF s = <<>> THEN <<>> ELSE Insert(Head(s), Sorted(Tail(s)))

RECURSIVE SetToSortedSeq(_)
\* np.unique: the elements of a set of numbers in ascending order
SetToSortedSeq(S) ==
    IF S = {} THEN <<>>
    ELSE LET m == CHOOSE x \in S : \A y \in S : x <= y
         IN  <<m>> \o SetToSortedSeq(S \ {m})

\* np.percentile(vals, 100 * qn / qd) with linear interpolation, of a non-empty
\* sequence; the result keeps the unit of vals
Percentile(vals, qn, qd) ==
    LET s   == Sorted(vals)
        pos == qn * (Len(s) - 1)
        i   == (pos \div qd) + 1
        rem == pos % qd
    IN  IF rem = 0 THEN s[i] ELSE s[i] + ((s[i + 1] - s[i]) * rem) \div qd

Median(vals) == Percentile(vals, 1, 2)

\* The split without the rule that a cell of 4 or more games holds out at least 2
_split_countsNoMinTwo(W, L, rho) ==
    LET N  == W + L
        test == Min(Max(1, RoundDiv(rho * N, ONE)), Max(0, N - 1))
        Wte0 == Max(0, Min(RoundDiv(test * W, N), W))
        Lte0 == Max(0, Min(test - Wte0, L))
    IN  IF N <= 0 THEN <<0, 0, 0, 0>> ELSE <<W - Wte0, L - Lte0, Wte0, Lte0>>

\* The split with the held-out losses rounded on their own, not taken as the
\* rest of the held-out size
_split_countsRoundBoth(W, L, rho) ==
    LET N  == W + L
        tt == RoundDiv(rho * N, ONE)
        test == Min(Max(1, IF N >= 4 THEN Max(tt, 2) ELSE tt), Max(0, N - 1))
        Wte0 == Max(0, Min(RoundDiv(test * W, N), W))
        Lte0 == Max(0, Min(RoundDiv(test * L, N), L))
    IN  IF N <= 0 THEN <<0, 0, 0, 0>> ELSE <<W - Wte0, L - Lte0, Wte0, Lte0>>

_split_counts(W, L, rho) ==
    LET N  == W + L
        tt == RoundDiv(rho * N, ONE)
        test_target == IF N >= 4 THEN Max(tt, 2) ELSE tt
        test == Min(Max(1, test_target), Max(0, N - 1))
        Wte0 == Max(0, Min(RoundDiv(test * W, N), W))
        Lte0 == Max(0, Min(test - Wte0, L))
        Wtr0 == W - Wte0
        Ltr0 == L - Lte0
    IN  IF N <= 0 THEN <<0, 0, 0, 0>>
        ELSE IF (Wtr0 + Ltr0) <= 0 /\ N > 1
        THEN IF Wte0 >= Lte0 /\ Wte0 > 0 THEN <<Wtr0 + 1, Ltr0, Wte0 - 1, Lte0>>
             ELSE IF Lte0 > 0 THEN <<Wtr0, Ltr0 + 1, Wte0, Lte0 - 1>>
             ELSE <<Wtr0, Ltr0, Wte0, Lte0>>
        ELSE <<Wtr0, Ltr0, Wte0, Lte0>>

RECURSIVE LnRise(_, _)
\* ln x + ln(x + 1) + ... + ln(x + n - 1) = lgamma(x + n) - lgamma(x), x in units
\* of 1/ONE and the sum in units of 1/LNS
LnRise(x, n) == IF n <= 0 THEN 0 ELSE Ln(x) + LnRise(x + ONE, n - 1)

\* _logB(Wte + alpha, Lte + beta) - _logB(alpha, beta), in units of 1/LNS
LogBDiff(alpha, beta, Wte, Lte) ==
    LnRise(alpha, Wte) + LnRise(beta, Lte) - LnRise(alpha + beta, Wte + Lte)

\* -inf
NegInf == -Pow2(30)

\* ll_pred_total(K, idx_subset): subset is a sequence of positions in splits
ll_pred_total(K, subset, splits, mu) ==
    LET a0 == (mu * K) \div ONE
        b0 == ((ONE - mu) * K) \div ONE
    IN  IF ~(K > 0 /\ 0 < mu /\ mu < ONE) \/ a0 <= 0 \/ b0 <= 0 THEN NegInf
        ELSE SumSeq([j \in 1..Len(subset) |->
                 LET sp == splits[subset[j]]
                 IN  IF sp[3] + sp[4] <= 0 THEN 0
                     ELSE LogBDiff(a0 + sp[1] * ONE, b0 + sp[2] * ONE, sp[3], sp[4])])

\* The selection without the tolerance: np.nanargmax alone, the first index of
\* the maximum
BestIdxArgmax(LL, LL_max, c) ==
    CHOOSE i \in 1..Len(LL) :
        LL[i] = LL_max /\ \A j \in 1..(i - 1) : LL[j] # LL_max

\* The smallest index whose log-likelihood is within the relative tolerance of
\* the maximum LL_max
BestIdx(LL, LL_max, c) ==
    LET tol == (c.REL_TOL_LL * Max(LNS, Abs(LL_max))) \div ONE
    IN  CHOOSE i \in 1..Len(LL) :
            /\ LL_max - LL[i] <= tol
            /\ \A j \in 1..Len(LL) : LL_max - LL[j] <= tol => i <= j

Selection(K_grid, LL, best_idx) ==
    [LL |-> LL, best_idx |-> best_idx, K_star |-> K_grid[best_idx]]

SelectLL(K_grid, LL, c) ==
    Selection(K_grid, LL,
              BestIdx(LL, CHOOSE m \in Range(LL) : \A x \in Range(LL) : x <= m, c))

\* The grid's log-likelihoods, the first maximum, and the smallest index within
\* the relative tolerance of it
SelectK(K_grid, idx_used, splits, c) ==
    SelectLL(K_grid,
             [i \in 1..Len(K_grid) |-> ll_pred_total(K_grid[i], idx_used, splits, c.MU)], c)

\* The observed off-diagonal cells in row-major order: mask_obs
ObservedCells(N, ax) ==
    LET all == [k \in 1..(Len(ax) * Len(ax)) |->
                   <<ax[((k - 1) \div Len(ax)) + 1], ax[((k - 1) % Len(ax)) + 1]>>]
    IN  SelectSeq(all, LAMBDA rc : rc[1] # rc[2] /\ Fill0(Loc(N, rc[1], rc[2])) > 0)

\* floorK = max(k_lo_user, cfg.K_MIN)
FloorK(c) == Max(c.K_CONST_BOUNDS[1], c.K_MIN)

\* beta_auto = sqrt(max(N_med, 1) * max(N_75, 1))
BetaAuto(N_50, N_75) == ISqrt(Max(N_50, ONE) * Max(N_75, ONE))

\* The grid beta_auto * {1/4, 1/2, 1, 2, 4} clipped to the bounds
KGrid(beta_auto, c) ==
    SetToSortedSeq({Clip(k, FloorK(c), c.K_CONST_BOUNDS[2]) :
        k \in {beta_auto \div 4, beta_auto \div 2, beta_auto, 2 * beta_auto, 4 * beta_auto}})

AutoKSelected(N_vec, splits, idx_used, N_50, N_75, beta_auto, K_grid, sel) ==
    [error |-> "none", N_vec |-> N_vec, splits |-> splits,
     idx_used |-> idx_used, N_med |-> N_50, N_75 |-> N_75,
     beta_auto |-> beta_auto, K_grid |-> K_grid, LL |-> sel.LL,
     best_idx |-> sel.best_idx, K_star |-> sel.K_star, expansions |-> 0]

AutoKGrid(N_vec, splits, idx_used, N_50, N_75, beta_auto, K_grid, c) ==
    AutoKSelected(N_vec, splits, idx_used, N_50, N_75, beta_auto, K_grid,
                  SelectK(K_grid, idx_used, splits, c))

AutoKBeta(N_vec, splits, idx_used, N_50, N_75, beta_auto, c) ==
    AutoKGrid(N_vec, splits, idx_used, N_50, N_75, beta_auto, KGrid(beta_auto, c), c)

AutoKUsed(N_vec, splits, idx_used, c) ==
    IF idx_used = <<>> THEN [error |-> "no trials remain in test"]
    ELSE AutoKBeta(N_vec, splits, idx_used,
                   Percentile([i \in 1..Len(N_vec) |-> N_vec[i] * ONE], 1, 2),
                   Percentile([i \in 1..Len(N_vec) |-> N_vec[i] * ONE], 3, 4),
                   BetaAuto(Percentile([i \in 1..Len(N_vec) |-> N_vec[i] * ONE], 1, 2),
                            Percentile([i \in 1..Len(N_vec) |-> N_vec[i] * ONE], 3, 4)), c)

AutoKSplits(N_vec, splits, c) ==
    AutoKUsed(N_vec, splits,
              SelectSeq([i \in 1..Len(splits) |-> i],
                        LAMBDA i : splits[i][3] + splits[i][4] > 0), c)

AutoKCells(S, F, N, cells, c) ==
    IF cells = <<>> THEN [error |-> "no observed cells"]
    ELSE AutoKSplits([i \in 1..Len(cells) |-> Loc(N, cells[i][1], cells[i][2])],
                     [i \in 1..Len(cells) |->
                         _split_counts(Loc(S, cells[i][1], cells[i][2]),
                                       Loc(F, cells[i][1], cells[i][2]), c.RHO_TEST)], c)

\* auto_k_cv up to the first selection of K_star, or the error it raises
AutoKSetup(S, F, N, c) == AutoKCells(S, F, N, ObservedCells(N, S.index), c)

\* The loop's condition without the cap on the number of extensions
CanExpandUncapped(a, c) ==
    a.best_idx = 1 /\ a.K_grid[1] > FloorK(c)

\* The condition of the loop that extends the grid downward
CanExpand(a, c) ==
    a.best_idx = 1 /\ a.K_grid[1] > FloorK(c) /\ a.expansions < 2

\* One pass of that loop
ExpandOnce(a, c) ==
    LET K_ext  == Max(a.K_grid[1] \div 2, FloorK(c))
        K_grid == SetToSortedSeq(Range(a.K_grid) \cup {K_ext})
        sel    == SelectK(K_grid, a.idx_used, a.splits, c)
    IN  [a EXCEPT !.K_grid = K_grid, !.LL = sel.LL, !.best_idx = sel.best_idx,
                  !.K_star = sel.K_star, !.expansions = a.expansions + 1]

\* The bootstrap generator.  numpy's PCG64 is not modelled bit for bit: the
\* generator is a linear congruential one, which like it is a deterministic
\* function of its seed and of the number of draws made so far.
RngSeed(seed) == seed % 65537
RngNext(st) == (75 * st + 74) % 65537

\* A generator seeded once and kept by the process: a later call draws on from
\* where the call before it stopped
process_rng(c) == IF rng = NoRng THEN RngSeed(c.SEED) ELSE rng

\* np.random.default_rng(int(cfg.SEED)): a fresh generator for every call
default_rng(c) == RngSeed(c.SEED)

RECURSIVE Integers_(_, _, _)
\* rng.integers(low=0, high=high, size=size): the draws (as positions 1..high)
\* and the generator's state after them
Integers_(st, high, size) ==
    IF size = 0 THEN [draws |-> <<>>, st |-> st]
    ELSE LET nx   == RngNext(st)
             rest == Integers_(nx, high, size - 1)
         IN  [draws |-> <<(nx % high) + 1>> \o rest.draws, st |-> rest.st]

\* argmax_smallest over the local grid: the largest value, ties to the smallest K
ArgmaxSmallest(grid, vals) ==
    LET best == CHOOSE i \in 1..Len(grid) :
                    \A j \in 1..Len(grid) :
                        vals[i] > vals[j] \/ (vals[i] = vals[j] /\ grid[i] <= grid[j])
    IN  grid[best]

RECURSIVE Bootstrap(_, _, _, _, _)
\* The loop over cfg.BOOT_N resamples: K_boot and the generator's final state
Bootstrap(n, st, local_grid, a, c) ==
    IF n = 0 THEN [K_boot |-> <<>>, st |-> st]
    ELSE LET d      == Integers_(st, Len(a.idx_used), Len(a.idx_used))
             subset == [j \in 1..Len(d.draws) |-> a.idx_used[d.draws[j]]]
             vals   == [i \in 1..Len(local_grid) |->
                           ll_pred_total(local_grid[i], subset, a.splits, c.MU)]
             rest   == Bootstrap(n - 1, d.st, local_grid, a, c)
         IN  [K_boot |-> <<ArgmaxSmallest(local_grid, vals)>> \o rest.K_boot,
              st |-> rest.st]

\* sqrt(2) in units of 1/ONE, as np.sqrt(2.0) is used for the local grid
Sqrt2 == ISqrt(2 * ONE * ONE)

\* delta_ll_100: 100 * (LL_star - LL_base) / N_test_tot against the baseline
\* K = beta_auto clipped to the grid
DeltaLL(a, c) ==
    LET K_base == Clip(a.beta_auto, a.K_grid[1], a.K_grid[Len(a.K_grid)])
        N_test_tot == SumSeq([j \in 1..Len(a.idx_used) |->
                          a.splits[a.idx_used[j]][3] + a.splits[a.idx_used[j]][4]])
    IN  IF N_test_tot <= 0 THEN 0
        ELSE Quot(100 * (a.LL[a.best_idx]
                         - ll_pred_total(K_base, a.idx_used, a.splits, c.MU)), N_test_tot)

\* The local grid around K_star that the bootstrap chooses from
LocalGrid(a) ==
    SetToSortedSeq({Clip(k, a.K_grid[1], a.K_grid[Len(a.K_grid)]) :
        k \in {(a.K_star * ONE) \div Sqrt2, a.K_star, (a.K_star * Sqrt2) \div ONE}})

\* The rules without the boundary test of the second branch: a K_star at the
\* boundary that the bootstrap does not support is returned as "best"
StabilityRulesInterior(a, c, n_boot, boot_med, boot_iqr, hits) ==
    LET at_boundary == a.K_star = a.K_grid[1] \/ a.K_star = a.K_grid[Len(a.K_grid)]
        strong_boundary == /\ at_boundary /\ 100 * hits >= 80 * n_boot
                           /\ boot_med > 0 /\ 100 * boot_iqr <= 5 * boot_med
        clip_lo == Max(Max(a.K_grid[1], c.K_MIN), c.K_CONST_BOUNDS[1])
        clip_hi == Min(Min(a.K_grid[Len(a.K_grid)], c.K_CONST_BOUNDS[2]), a.beta_auto * 4)
    IN  IF strong_boundary
        THEN [K_used |-> Clip(a.K_star, clip_lo, clip_hi), reason |-> "best-boundary-override",
              at_boundary |-> at_boundary, clip_lo |-> clip_lo, clip_hi |-> clip_hi]
        ELSE IF \/ (boot_med > 0 /\ 100 * boot_iqr > 35 * boot_med)
                \/ 100 * hits < 50 * n_boot
        THEN [K_used |-> Clip(boot_med, Max(a.beta_auto \div 4, clip_lo), clip_hi),
              reason |-> "boot-clipped",
              at_boundary |-> at_boundary, clip_lo |-> clip_lo, clip_hi |-> clip_hi]
        ELSE [K_used |-> Clip(a.K_star, clip_lo, clip_hi), reason |-> "best",
              at_boundary |-> at_boundary, clip_lo |-> clip_lo, clip_hi |-> clip_hi]

\* The boundary and stability rules that turn K_star and the bootstrap's
\* median, interquartile range and count of hits of K_star into K_used
StabilityRules(a, c, n_boot, boot_med, boot_iqr, hits) ==
    LET at_boundary == a.K_star = a.K_grid[1] \/ a.K_star = a.K_grid[Len(a.K_grid)]
        \* mode_freq = hits / BOOT_N, compared without dividing
        strong_boundary == /\ at_boundary /\ 100 * hits >= 80 * n_boot
                           /\ boot_med > 0 /\ 100 * boot_iqr <= 5 * boot_med
        clip_lo == Max(Max(a.K_grid[1], c.K_MIN), c.K_CONST_BOUNDS[1])
        clip_hi == Min(Min(a.K_grid[Len(a.K_grid)], c.K_CONST_BOUNDS[2]), a.beta_auto * 4)
    IN  IF strong_boundary
        THEN [K_used |-> Clip(a.K_star, clip_lo, clip_hi), reason |-> "best-boundary-override",
              at_boundary |-> at_boundary, clip_lo |-> clip_lo, clip_hi |-> clip_hi]
        ELSE IF \/ at_boundary
                \/ (boot_med > 0 /\ 100 * boot_iqr > 35 * boot_med)
                \/ 100 * hits < 50 * n_boot
        THEN [K_used |-> Clip(boot_med, Max(a.beta_auto \div 4, clip_lo), clip_hi),
              reason |-> "boot-clipped",
              at_boundary |-> at_boundary, clip_lo |-> clip_lo, clip_hi |-> clip_hi]
        ELSE [K_used |-> Clip(a.K_star, clip_lo, clip_hi), reason |-> "best",
              at_boundary |-> at_boundary, clip_lo |-> clip_lo, clip_hi |-> clip_hi]

DecideK(a, c, K_boot) ==
    StabilityRules(a, c, Len(K_boot), Median(K_boot),
                   Percentile(K_boot, 3, 4) - Percentile(K_boot, 1, 4),
                   Cardinality({i \in 1..Len(K_boot) : K_boot[i] = a.K_star}))

\* r = K_used / (N + K_used) over the observed cells
ShrinkValues(N_vec, K_used) ==
    [i \in 1..Len(N_vec) |-> (K_used * ONE) \div (N_vec[i] * ONE + K_used)]

\* The positions of the cells with N <= Q25_N
SmallCells(N_vec) ==
    SelectSeq([i \in 1..Len(N_vec) |-> i],
              LAMBDA i : N_vec[i] * ONE <= Percentile([k \in 1..Len(N_vec) |-> N_vec[k] * ONE], 1, 4))

\* The dictionary auto_k_cv returns
AutoKResult(a, dLL_per100, K_boot, d, r_vals, small) ==
    [K_grid |-> a.K_grid, K_star |-> a.K_star, K_used |-> d.K_used,
     reason |-> d.reason, beta_auto |-> a.beta_auto,
     N_med |-> a.N_med, N_75 |-> a.N_75,
     delta_ll_100 |-> dLL_per100,
     r_p10 |-> Percentile(r_vals, 1, 10),
     r_p50 |-> Percentile(r_vals, 1, 2),
     r_p90 |-> Percentile(r_vals, 9, 10),
     r_small_med |-> Median([j \in 1..Len(small) |-> r_vals[small[j]]]),
     expansions |-> a.expansions,
     \* not returned by the program: kept for the properties
     K_boot |-> K_boot, at_boundary |-> d.at_boundary,
     clip_lo |-> d.clip_lo, clip_hi |-> d.clip_hi]

AutoKFinish(a, c, boot, d) ==
    [res |-> AutoKResult(a, DeltaLL(a, c), boot.K_boot, d,
                         ShrinkValues(a.N_vec, d.K_used), SmallCells(a.N_vec)),
     st |-> boot.st]

AutoKBooted(a, c, boot) == AutoKFinish(a, c, boot, DecideK(a, c, boot.K_boot))

\* auto_k_cv from the baseline diagnostics to its return value, given the
\* selection a and the generator state st0 the bootstrap starts from
AutoKDecide(a, c, st0) ==
    AutoKBooted(a, c, Bootstrap(c.BOOT_N, st0, LocalGrid(a), a, c))

-----------------------------------------------------------------------------
(* posterior.py and mas_lb.py *)

\* The cell as the observed frequency W / (W + L), with no prior
PosteriorCellNoPrior(S, F, a, b, K, mu) ==
    LET W == Fill0(Loc(S, a, b))
        L == Fill0(Loc(F, a, b))
        p == (W * ONE) \div (W + L)
    IN  IF a = b \/ W + L = 0 THEN [p |-> NaN, var |-> NaN]
        ELSE [p |-> p, var |-> (p * (ONE - p) * ONE) \div ((W + L + 1) * ONE)]

\* One cell of p_hat and var_hat: p_hat in units of 1/ONE, var_hat in units of
\* 1/ONE^2; NaN on the diagonal
PosteriorCell(S, F, a, b, K, mu) ==
    LET A_post == Fill0(Loc(S, a, b)) * ONE + (mu * K) \div ONE
        B_post == Fill0(Loc(F, a, b)) * ONE + ((ONE - mu) * K) \div ONE
        den == A_post + B_post
        p == (A_post * ONE) \div den
        q == (B_post * ONE) \div den
    IN  IF a = b \/ den = 0 THEN [p |-> NaN, var |-> NaN]
        ELSE [p |-> p, var |-> (p * q * ONE) \div (den + ONE)]

posterior_dir(S, F, K_used, c) ==
    LET ax == S.index
    IN  [p_hat   |-> Frame(ax, ax, LAMBDA a, b : PosteriorCell(S, F, a, b, K_used, c.MU).p),
         var_hat |-> Frame(ax, ax, LAMBDA a, b : PosteriorCell(S, F, a, b, K_used, c.MU).var)]

\* OBS = (n_dir.fillna(0.0) > 0.0) with the diagonal set to False
Obs(N, a, b) == a # b /\ Fill0(Loc(N, a, b)) > 0

\* x * y / scale, NaN if either is
MulNa(x, y, scale) == IF IsNaN(x) \/ IsNaN(y) THEN NaN ELSE (x * y) \div scale

\* pandas' sum(axis=1): NaN cells are skipped, a row of NaN sums to 0
SumSkipNa(ax, f(_)) == SumOver(ax, LAMBDA b : Fill0(f(b)))

\* The row of W_norm without the uniform fallback: a row whose masked weights
\* sum to zero is left as the division by NaN made it
WNormRowNoUniform(a, ax, p_weights, N) ==
    LET masked  == [b \in Range(ax) |-> IF Obs(N, a, b) THEN p_weights[b] ELSE 0]
        row_sum == VecSum(ax, masked)
    IN  IF row_sum <= 0 THEN [b \in Range(ax) |-> NaN]
        ELSE [b \in Range(ax) |-> (masked[b] * ONE) \div row_sum]

\* The row of W_norm for deck a: the weights renormalised over the observed
\* opponents, uniform over them if their weights sum to zero, NaN if there are none
WNormRow(a, ax, p_weights, N) ==
    LET masked  == [b \in Range(ax) |-> IF Obs(N, a, b) THEN p_weights[b] ELSE 0]
        row_sum == VecSum(ax, masked)
        n_obs   == Cardinality({b \in Range(ax) : Obs(N, a, b)})
    IN  IF n_obs = 0 THEN [b \in Range(ax) |-> NaN]
        ELSE IF row_sum <= 0
        THEN [b \in Range(ax) |-> IF Obs(N, a, b) THEN ONE \div n_obs ELSE 0]
        ELSE [b \in Range(ax) |-> (masked[b] * ONE) \div row_sum]

\* mas_se_lb: per deck MAS_%, SE_% and LB_%, a percentage x being x * ONE
mas_se_lb(p_hat, var_hat, p_weights, N, c) ==
    LET ax == p_hat.index
    IN  [a \in Range(ax) |->
            LET w   == WNormRow(a, ax, p_weights, N)
                MAS == SumSkipNa(ax, LAMBDA b : MulNa(w[b], Loc(p_hat, a, b), 1)) \div ONE
                VAR_MAS == SumSkipNa(ax, LAMBDA b :
                               MulNa(MulNa(w[b], w[b], ONE), Loc(var_hat, a, b), ONE))
                SE  == ISqrt(Max(VAR_MAS, 0))
                LB  == MAS - (c.Z_PENALTY * SE) \div ONE
            IN  [MAS |-> MAS * 100, SE |-> SE * 100, LB |-> LB * 100, w |-> w]]

-----------------------------------------------------------------------------
(* bt.py *)

\* _s_of: the directional confidence N / (N + K) of a count N
_s_of(Nv, K) == IF Nv > 0 THEN (Nv * ONE * ONE) \div (Nv * ONE + K) ELSE 0

\* The unordered pairs i < j of axis positions, in the order of the nested loops
PairIndex(ax) ==
    LET n == Len(ax)
        codes == SetToSortedSeq({ij[1] * (n + 1) + ij[2] :
                                    ij \in {q \in (1..n) \X (1..n) : q[1] < q[2]}})
    IN  [k \in 1..Len(codes) |-> <<codes[k] \div (n + 1), codes[k] % (n + 1)>>]

\* The pre-selection judging a pair by its better direction, not by the mean
\* of its directions
EdgeBestDirection(ax, N, p_hat, K, c, i, j) ==
    LET ai  == ax[i]
        aj  == ax[j]
        Nij == Loc(N, ai, aj)
        Nji == Loc(N, aj, ai)
        s_ij == _s_of(Nij, K)
        s_ji == _s_of(Nji, K)
        s_bar == Max(s_ij, s_ji)
        s_min == (c.N_MIN_BT_TARGET * ONE * ONE) \div (c.N_MIN_BT_TARGET * ONE + K)
        p1 == Loc(p_hat, ai, aj)
        p2 == Loc(p_hat, aj, ai)
        p_bar == IF ~IsNaN(p1) /\ ~IsNaN(p2) THEN (p1 + (ONE - p2)) \div 2
                 ELSE IF ~IsNaN(p1) THEN p1
                 ELSE IF ~IsNaN(p2) THEN ONE - p2 ELSE NaN
        n_base == IF c.BT_USE_HARMONIC_N /\ Nij > 0 /\ Nji > 0
                  THEN (2 * Nij * Nji * ONE) \div (Nij + Nji)
                  ELSE IF Nij > 0 /\ Nji > 0 THEN ((Nij + Nji) * ONE) \div 2
                  ELSE IF Nij > 0 THEN Nij * ONE
                  ELSE IF Nji > 0 THEN Nji * ONE ELSE 0
    IN  [ai |-> ai, aj |-> aj, Nij |-> Nij, Nji |-> Nji, n_base |-> n_base,
         s_bar |-> s_bar, p_bar |-> p_bar, s_min |-> s_min,
         status |-> IF Nij <= 0 /\ Nji <= 0 THEN "skip"
                    ELSE IF s_bar < s_min \/ IsNaN(p_bar) THEN "drop" ELSE "keep"]

\* What the pre-selection makes of the pair (ax[i], ax[j])
Edge(ax, N, p_hat, K, c, i, j) ==
    LET ai  == ax[i]
        aj  == ax[j]
        Nij == Loc(N, ai, aj)
        Nji == Loc(N, aj, ai)
        s_ij == _s_of(Nij, K)
        s_ji == _s_of(Nji, K)
        s_bar == IF s_ij > 0 /\ s_ji > 0 THEN (s_ij + s_ji) \div 2
                 ELSE IF s_ij > 0 THEN s_ij ELSE IF s_ji > 0 THEN s_ji ELSE 0
        s_min == (c.N_MIN_BT_TARGET * ONE * ONE) \div (c.N_MIN_BT_TARGET * ONE + K)
        p1 == Loc(p_hat, ai, aj)
        p2 == Loc(p_hat, aj, ai)
        p_bar == IF ~IsNaN(p1) /\ ~IsNaN(p2) THEN (p1 + (ONE - p2)) \div 2
                 ELSE IF ~IsNaN(p1) THEN p1
                 ELSE IF ~IsNaN(p2) THEN ONE - p2 ELSE NaN
        n_base == IF c.BT_USE_HARMONIC_N /\ Nij > 0 /\ Nji > 0
                  THEN (2 * Nij * Nji * ONE) \div (Nij + Nji)
                  ELSE IF Nij > 0 /\ Nji > 0 THEN ((Nij + Nji) * ONE) \div 2
                  ELSE IF Nij > 0 THEN Nij * ONE
                  ELSE IF Nji > 0 THEN Nji * ONE ELSE 0
    IN  [ai |-> ai, aj |-> aj, Nij |-> Nij, Nji |-> Nji, n_base |-> n_base,
         s_bar |-> s_bar, p_bar |-> p_bar, s_min |-> s_min,
         status |-> IF Nij <= 0 /\ Nji <= 0 THEN "skip"
                    ELSE IF s_bar < s_min \/ IsNaN(p_bar) THEN "drop" ELSE "keep"]

\* The pre-filter without its threshold: every pair with games is kept
PrefilterKeepAll(ax, N, p_hat, K, c) ==
    LET ij  == PairIndex(ax)
        all == [k \in 1..Len(ij) |-> Edge(ax, N, p_hat, K, c, ij[k][1], ij[k][2])]
    IN  [info_kept  |-> SelectSeq(all, LAMBDA e : e.status # "skip" /\ ~IsNaN(e.p_bar)),
         edges_drop |-> 0,
         s_min |-> (c.N_MIN_BT_TARGET * ONE * ONE) \div (c.N_MIN_BT_TARGET * ONE + K)]

\* The pre-selection of the edges: info_kept and the count of dropped edges
Prefilter(ax, N, p_hat, K, c) ==
    LET ij  == PairIndex(ax)
        all == [k \in 1..Len(ij) |-> Edge(ax, N, p_hat, K, c, ij[k][1], ij[k][2])]
    IN  [info_kept  |-> SelectSeq(all, LAMBDA e : e.status = "keep"),
         edges_drop |-> Len(SelectSeq(all, LAMBDA e : e.status = "drop")),
         s_min |-> (c.N_MIN_BT_TARGET * ONE * ONE) \div (c.N_MIN_BT_TARGET * ONE + K)]

\* _hhi of a sequence of non-negative values, NaN when they sum to zero
_hhi(vals) ==
    LET tot == SumSeq(vals)
    IN  IF tot <= 0 THEN NaN
        ELSE SumSeq([k \in 1..Len(vals) |->
                        (((vals[k] * ONE) \div tot) * ((vals[k] * ONE) \div tot)) \div ONE])

_clip01(x) == Clip(x, 0, ONE)

\* The diagnostics of the kept edges and the exponent of the soft weight
SoftPower(ax, info_kept, s_min, c) ==
    LET kept == Len(info_kept)
        sbar_kept  == [k \in 1..kept |-> info_kept[k].s_bar]
        near_share == (Cardinality({k \in 1..kept : /\ sbar_kept[k] >= s_min
                                                    /\ sbar_kept[k] < s_min + c.BT_NEAR_BAND})
                       * ONE) \div kept
        sbar_med == Median(sbar_kept)
        lev_base == [k \in 1..kept |->
                        (Max(info_kept[k].n_base, 0) * Abs(info_kept[k].p_bar - ONE \div 2))
                        \div ONE]
        hhi_lev == _hhi(lev_base)
        deck_counts == [d \in Range(ax) |->
                           Cardinality({k \in 1..kept : info_kept[k].ai = d \/ info_kept[k].aj = d})]
        min_opp == CHOOSE m \in {deck_counts[d] : d \in Range(ax)} :
                       \A d \in Range(ax) : m <= deck_counts[d]
        x1 == _clip01(Quot((near_share - 150) * ONE, 150))
        x2 == _clip01(Quot((600 - sbar_med) * ONE, 100))
        x3 == _clip01(Quot(((IF IsNaN(hhi_lev) THEN 100 ELSE hhi_lev) - 100) * ONE, 50))
        x4 == _clip01(Quot((8 - min_opp) * ONE, 5))
        auto == Clip(1500 + (400 * x1 + 200 * x2 + 200 * x3 + 100 * x4) \div ONE, 1500, 2100)
    IN  [kept |-> kept, near_share |-> near_share, s_bar_median |-> sbar_med,
         HHI_lev_base |-> hhi_lev, min_opp |-> min_opp, s_min |-> s_min,
         BT_SOFT_POWER |-> IF IsNaN(c.BT_SOFT_POWER) THEN auto ELSE c.BT_SOFT_POWER,
         BT_SOFT_POWER_mode |-> IF IsNaN(c.BT_SOFT_POWER) THEN "auto-cont" ELSE "set"]

\* The loop body with the loser's weight taken from n_base and without the
\* sanity check
SoftPairUnchecked(e, soft_power) ==
    LET p_bar == Clip(e.p_bar, 1, ONE - 1)
        n_eff == Max((e.n_base * Exp((soft_power * Ln(e.s_bar)) \div ONE)) \div LNS, 1)
    IN  [ai |-> e.ai, aj |-> e.aj, n_eff |-> n_eff, w_ij |-> p_bar * n_eff,
         w_ji |-> (ONE - p_bar) * e.n_base, raised |-> "none"]

\* The body of the loop that builds the soft pairs: n_eff in units of 1/ONE,
\* w_ij and w_ji in units of 1/ONE^2, and the sanity check that raises
SoftPair(e, soft_power) ==
    LET p_bar == Clip(e.p_bar, 1, ONE - 1)
        n_eff == Max((e.n_base * Exp((soft_power * Ln(e.s_bar)) \div ONE)) \div LNS, 1)
        w_ij  == p_bar * n_eff
        w_ji  == (ONE - p_bar) * n_eff
    IN  [ai |-> e.ai, aj |-> e.aj, n_eff |-> n_eff, w_ij |-> w_ij, w_ji |-> w_ji,
         raised |-> IF Abs((w_ij + w_ji) - n_eff * ONE) > 1 THEN "w sum != n_eff"
                    ELSE IF ~(0 < w_ij /\ w_ij < n_eff * ONE /\ 0 < w_ji /\ w_ji < n_eff * ONE)
                    THEN "w out of range" ELSE "none"]

\* wins_out of deck d, in units of 1/ONE^2
WinsOut(pairs, d) ==
    SumSeq([k \in 1..Len(pairs) |->
               IF pairs[k].ai = d THEN pairs[k].w_ij
               ELSE IF pairs[k].aj = d THEN pairs[k].w_ji ELSE 0])

\* The MM update of deck d from the strengths pi of the sweep before
MMUpdate(pairs, pi, d, c) ==
    LET denom_i == SumSeq([k \in 1..Len(pairs) |->
                       IF pairs[k].ai = d
                       THEN (pairs[k].n_eff * ONE) \div (pi[d] + pi[pairs[k].aj])
                       ELSE IF pairs[k].aj = d
                       THEN (pairs[k].n_eff * ONE) \div (pi[d] + pi[pairs[k].ai])
                       ELSE 0])
    IN  ((WinsOut(pairs, d) \div ONE + c.LAMBDA_RIDGE) * ONE) \div (denom_i + c.LAMBDA_RIDGE)

\* One pass of the MM loop: the new strengths and whether the loop breaks
MMSweep(ax, pairs, pi, c) ==
    LET upd == [d \in Range(ax) |-> MMUpdate(pairs, pi, d, c)]
        rel == [d \in Range(ax) |-> (Abs(upd[d] - pi[d]) * ONE) \div pi[d]]
    IN  [pi |-> [d \in Range(ax) |-> Max(upd[d], 1)],
         converged |-> \A d \in Range(ax) : rel[d] < c.BT_TOL]

\* The strengths scaled by their geometric mean and mapped through the sigmoid
\* of theta / std(theta); the result is bt_pct, a percentage x being x * ONE
BtScale(ax, pi) ==
    LET T     == Len(ax)
        gmean == Max(Exp(SumOver(ax, LAMBDA d : Ln(pi[d])) \div T) \div 10, 1)
        theta == [d \in Range(ax) |-> Ln(Max((pi[d] * ONE) \div gmean, 1)) \div 10]
        m     == SumOver(ax, LAMBDA d : theta[d]) \div T
        sd    == ISqrt(SumOver(ax, LAMBDA d : (theta[d] - m) * (theta[d] - m)) \div T)
        t_std == IF sd > 0 THEN sd ELSE ONE
    IN  [d \in Range(ax) |->
            100 * ((ONE * LNS) \div (LNS + Exp(-10 * Clip((theta[d] * ONE) \div t_std,
                                                         -20 * ONE, 20 * ONE))))]

\* opp_list of deck d: its opponents in the kept pairs, each with the pair's n_eff
OppList(pairs, d) ==
    LET mine == SelectSeq(pairs, LAMBDA e : e.ai = d \/ e.aj = d)
    IN  [k \in 1..Len(mine) |->
            <<IF mine[k].ai = d THEN mine[k].aj ELSE mine[k].ai, mine[k].n_eff>>]

RECURSIVE VecOn(_, _)
\* new_pi as an array of its own: the values of w over the non-empty axis ax,
\* computed once each
VecOn(ax, w) ==
    IF Len(ax) = 1 THEN ax[1] :> w[ax[1]]
    ELSE (ax[1] :> w[ax[1]]) @@ VecOn(Tail(ax), w)

RECURSIVE MMLoop(_, _, _, _, _)
\* The MM loop from sweep number iter on: at most MAX_BT_ITER sweeps, left early
\* after a sweep whose largest relative change is below BT_TOL
MMLoop(ax, pairs, pi, iter, c) ==
    IF iter >= c.MAX_BT_ITER THEN [pi |-> pi, iter |-> iter]
    ELSE IF MMSweep(ax, pairs, pi, c).converged
    THEN [pi |-> VecOn(ax, MMSweep(ax, pairs, pi, c).pi), iter |-> iter + 1]
    ELSE MMLoop(ax, pairs, VecOn(ax, MMSweep(ax, pairs, pi, c).pi), iter + 1, c)

\* The fit on the soft pairs sp, or the AssertionError of a pair that fails its
\* sanity check
BtFitted(ax, dg, edges_drop, sp, c) ==
    LET pairs == [k \in 1..Len(sp) |->
                     [ai |-> sp[k].ai, aj |-> sp[k].aj, n_eff |-> sp[k].n_eff,
                      w_ij |-> sp[k].w_ij, w_ji |-> sp[k].w_ji]]
    IN  IF \E k \in 1..Len(sp) : sp[k].raised # "none"
        THEN [raised |-> "AssertionError", fitted |-> FALSE]
        ELSE [raised |-> "none", fitted |-> TRUE,
              bt_pct |-> BtScale(ax, MMLoop(ax, pairs, [d \in Range(ax) |-> ONE], 0, c).pi),
              diag |-> dg @@ [dropped |-> edges_drop],
              pairs |-> pairs,
              wins_out |-> [d \in Range(ax) |-> WinsOut(pairs, d)],
              opp_list |-> [d \in Range(ax) |-> OppList(pairs, d)]]

\* The soft pairs of the kept edges under the diagnostics dg, and their fit
BtChecked(ax, dg, pf, c) ==
    BtFitted(ax, dg, pf.edges_drop,
             [k \in 1..Len(pf.info_kept) |-> SoftPair(pf.info_kept[k], dg.BT_SOFT_POWER)], c)

\* bt_soft after the pre-selection pf: the fallback when no edge is kept
BtKept(ax, pf, c) ==
    IF pf.info_kept = <<>>
    THEN [raised |-> "none", fitted |-> FALSE,
          bt_pct |-> [d \in Range(ax) |-> 50 * ONE],
          diag |-> [kept |-> 0, dropped |-> pf.edges_drop, s_min |-> pf.s_min],
          pairs |-> <<>>]
    ELSE BtChecked(ax, SoftPower(ax, pf.info_kept, pf.s_min, c), pf, c)

\* bt_soft as a function of its arguments: what it returns (bt_pct, diag,
\* pairs), the exception it raises instead, and the sums its fit is made from
bt_soft(ax, N, p_hat, K, c) == BtKept(ax, Prefilter(ax, N, p_hat, K, c), c)

-----------------------------------------------------------------------------
(* composite.py *)

\* _z without the test of the standard deviation: a constant vector is divided
\* by its zero deviation
_zUnguarded(ax, sv) ==
    LET ok  == {d \in Range(ax) : ~IsNaN(sv[d])}
        n   == Cardinality(ok)
        tot == SumOver(ax, LAMBDA d : Fill0(sv[d]))
        dev == [d \in Range(ax) |-> IF d \in ok THEN n * sv[d] - tot ELSE 0]
        D   == CHOOSE x \in {Abs(dev[d]) : d \in Range(ax)} :
                   \A d \in Range(ax) : Abs(dev[d]) <= x
        e   == [d \in Range(ax) |-> Quot(1024 * dev[d], Max(D, 1))]
        sd  == ISqrt(SumOver(ax, LAMBDA d : e[d] * e[d]) \div Max(n, 1))
    IN  IF n = 0 \/ D = 0 THEN [d \in Range(ax) |-> NaN]
        ELSE [d \in Range(ax) |-> IF d \in ok THEN Quot(e[d] * ONE, sd) ELSE NaN]

\* _z: the z-scores of a vector of percentages in units of 1/ONE, zeros when
\* its standard deviation is zero, undefined when the vector is (nanstd is NaN).  The deviations n * (s - mean) are exact and
\* are normalised by the largest of them before they are squared.
_z(ax, sv) ==
    LET ok  == {d \in Range(ax) : ~IsNaN(sv[d])}
        n   == Cardinality(ok)
        tot == SumOver(ax, LAMBDA d : Fill0(sv[d]))
        dev == [d \in Range(ax) |-> IF d \in ok THEN n * sv[d] - tot ELSE 0]
        D   == CHOOSE x \in {Abs(dev[d]) : d \in Range(ax)} :
                   \A d \in Range(ax) : Abs(dev[d]) <= x
        e   == [d \in Range(ax) |-> Quot(1024 * dev[d], Max(D, 1))]
        sd  == ISqrt(SumOver(ax, LAMBDA d : e[d] * e[d]) \div Max(n, 1))
    IN  IF n = 0 THEN [d \in Range(ax) |-> NaN]
        ELSE IF D = 0 THEN [d \in Range(ax) |-> 0]
        ELSE [d \in Range(ax) |-> IF d \in ok THEN Quot(e[d] * ONE, sd) ELSE NaN]

\* erf(x / LNS) in units of 1/LNS for x >= 0, by the rational approximation
\* 1 - (a1 t + ... + a5 t^5) exp(-x^2), t = 1 / (1 + 0.3275911 x)
ErfPos(x) ==
    LET t    == (LNS * LNS) \div (LNS + (3276 * x) \div LNS)
        poly == (t * (2548 + (t * (-2845 + (t * (14214 + (t * (-14532 + (t * 10614)
                    \div LNS)) \div LNS)) \div LNS)) \div LNS)) \div LNS
    IN  IF x = 0 THEN 0
        ELSE IF x >= 4 * LNS THEN LNS
        ELSE Clip(LNS - (poly * Exp(-((x * x) \div LNS))) \div LNS, 0, LNS)

\* math.erf(z / sqrt(2)) in units of 1/LNS, of z in units of 1/ONE
ErfOfZ(z) ==
    LET x == (Abs(z) * 10 * ONE) \div ISqrt(2 * ONE * ONE)
    IN  IF z >= 0 THEN ErfPos(Min(x, 4 * LNS)) ELSE -ErfPos(Min(x, 4 * LNS))

\* compose without the factor 0.5
composeNoHalf(ax, lb_pct, bt_pct, alpha) ==
    LET zl == _z(ax, lb_pct)
        zb == _z(ax, bt_pct)
    IN  [d \in Range(ax) |->
            LET z == Quot(alpha * zl[d] + (ONE - alpha) * zb[d], ONE)
            IN  (100 * ONE * (LNS + ErfOfZ(z))) \div LNS]

\* compose: Score_% = 100 * 0.5 * (1 + erf(z / sqrt 2)), z the alpha-mix
compose(ax, lb_pct, bt_pct, alpha) ==
    LET zl == _z(ax, lb_pct)
        zb == _z(ax, bt_pct)
    IN  [d \in Range(ax) |->
            IF IsNaN(zl[d]) \/ IsNaN(zb[d]) THEN NaN
            ELSE LET z == Quot(alpha * zl[d] + (ONE - alpha) * zb[d], ONE)
                 IN  (100 * ONE * (LNS + ErfOfZ(z))) \div (2 * LNS)]

-----------------------------------------------------------------------------
(* coverage.py and the data frames the run returns *)

RECURSIVE OrderIdx(_, _)
\* The positions todo of a sequence of keys in ascending order of key, equal
\* keys in their original order: the row order sort_values gives
OrderIdx(keys, todo) ==
    IF todo = {} THEN <<>>
    ELSE LET k == CHOOSE i \in todo :
                      \A j \in todo : keys[i] < keys[j] \/ (keys[i] = keys[j] /\ i <= j)
         IN  <<k>> \o OrderIdx(keys, todo \ {k})

\* rows sorted by the parallel sequence of keys
SortRows(rows, keys) ==
    LET o == OrderIdx(keys, 1..Len(rows))
    IN  [k \in 1..Len(rows) |-> rows[o[k]]]

\* The alphabetical position of a deck name
DeckOrd(d) == CHOOSE i \in 1..Len(Axis) : Axis[i] = d

\* The opponents of a whose cell is undefined, a cell of zero games left out
MissingOfUndefined(N, ax, a) ==
    SelectSeq(ax, LAMBDA b : a # b /\ IsNaN(Loc(N, a, b)))

\* The opponents of a that the row of N does not observe, in axis order
MissingOf(N, ax, a) ==
    SelectSeq(ax, LAMBDA b : a # b /\ (Loc(N, a, b) <= 0 \/ IsNaN(Loc(N, a, b))))

\* N.sum(axis=1, skipna=True) for deck a
NEff(N, ax, a) == SumSkipNa(ax, LAMBDA b : Loc(N, a, b))

Concat(ss) == LET RECURSIVE go(_)
                  go(k) == IF k > Len(ss) THEN <<>> ELSE ss[k] \o go(k + 1)
              IN  go(1)

coverage_tables(N, ax) ==
    LET Opp_total == Len(ax) - 1
        row(a) == LET used == Cardinality({b \in Range(ax) : Obs(N, a, b)})
                  IN  [Deck |-> a, Opp_used |-> used, Opp_total |-> Opp_total,
                       Missing |-> Opp_total - used,
                       Coverage |-> (used * 100 * ONE) \div Max(Opp_total, 1),
                       N_eff |-> NEff(N, ax, a),
                       Missing_sample |-> SubSeq(MissingOf(N, ax, a), 1,
                                                 Min(5, Len(MissingOf(N, ax, a))))]
        rows  == [k \in 1..Len(ax) |-> row(ax[k])]
        pairs == Concat([k \in 1..Len(ax) |->
                     LET m == MissingOf(N, ax, ax[k])
                     IN  [q \in 1..Len(m) |-> [Deck |-> ax[k], Missing_opponent |-> m[q]]]])
    IN  [coverage_df |->
             SortRows(rows, [k \in 1..Len(rows) |->
                 (0 - rows[k].Missing) * 10000 + rows[k].Opp_used * 100 + DeckOrd(rows[k].Deck)]),
         missing_pairs_long |->
             SortRows(pairs, [k \in 1..Len(pairs) |->
                 DeckOrd(pairs[k].Deck) * 100 + DeckOrd(pairs[k].Missing_opponent)])]

\* reset_index(drop=True) and index + 1: the labels of the rows of the ranking
RankIndex(n) == [k \in 1..n |-> (k - 1) + 1]

\* The key of sort_values with its default ascending=True
ScoreKeyAscending(score) == IF IsNaN(score) THEN 2 * 100 * ONE ELSE score

\* The key that sorts Score_% in descending order, NaN last
ScoreKey(score) == IF IsNaN(score) THEN 2 * 100 * ONE ELSE 0 - score

\* The ranking frame: a row per deck of the axis, sorted and rank-indexed
Assembled(ax, N, score, mas, bt_pct) ==
    LET Opp_total == Len(ax) - 1
        row(a) == LET used == Cardinality({b \in Range(ax) : Fill0(Loc(N, a, b)) > 0})
                  IN  [Deck |-> a, Score |-> score[a], MAS |-> mas[a].MAS,
                       LB |-> mas[a].LB, BT |-> bt_pct[a], SE |-> mas[a].SE,
                       N_eff |-> NEff(N, ax, a), Opp_used |-> used,
                       Opp_total |-> Opp_total,
                       Coverage |-> (used * 100 * ONE) \div Max(Opp_total, 1)]
        rows == [k \in 1..Len(ax) |-> row(ax[k])]
    IN  [index |-> RankIndex(Len(rows)),
         rows  |-> SortRows(rows, [k \in 1..Len(rows) |-> ScoreKey(rows[k].Score)])]

-----------------------------------------------------------------------------
(* pipeline.run_mars, a statement group at a time *)

Raise(e) == /\ err' = e /\ pc' = "raised"

\* The gate taken on any recorded issue instead of on ok
ValidateAnyIssue ==
    /\ pc = "validate"
    /\ stages' = Append(stages, "validate")
    /\ v' = validate_contract(filtered_wr, n_dir)
    /\ IF v'.issues # <<>> THEN Raise("ContractValidation")
       ELSE pc' = "blend_meta" /\ err' = err
    /\ UNCHANGED <<nan_filter, filtered_wr, n_dir, score_flat, top_meta_df, cfg, meta, mats,
                   auto_k, post, mas_df, bt, score_pct, cov, ranking, rng, run, first>>

Validate ==
    /\ pc = "validate"
    /\ stages' = Append(stages, "validate")
    /\ v' = validate_contract(filtered_wr, n_dir)
    /\ IF ~v'.ok THEN Raise("ContractValidation")
       ELSE pc' = "blend_meta" /\ err' = err
    /\ UNCHANGED <<nan_filter, filtered_wr, n_dir, score_flat, top_meta_df, cfg, meta, mats,
                   auto_k, post, mas_df, bt, score_pct, cov, ranking, rng, run, first>>

\* axis = list(filtered_wr.index)
AxisOf(wr) == wr.index

BlendMeta ==
    /\ pc = "blend_meta"
    /\ stages' = Append(stages, "blend_meta")
    /\ meta' = blend_meta(AxisOf(filtered_wr), n_dir, top_meta_df, cfg)
    /\ pc' = "score_flat"
    /\ UNCHANGED <<nan_filter, filtered_wr, n_dir, score_flat, top_meta_df, cfg, err, v, mats,
                   auto_k, post, mas_df, bt, score_pct, cov, ranking, rng, run, first>>

\* S, F and N = S.fillna(0) + F.fillna(0), each on axis x axis
DeriveWL(rows, ax) ==
    [S |-> Frame(ax, ax, LAMBDA a, b : PivotSum(rows, a, b, "W")),
     F |-> Frame(ax, ax, LAMBDA a, b : PivotSum(rows, a, b, "L")),
     N |-> Frame(ax, ax, LAMBDA a, b :
               Fill0(PivotSum(rows, a, b, "W")) + Fill0(PivotSum(rows, a, b, "L")))]

\* The derivation without the check of score_flat: a missing table pivots to
\* matrices without a cell
ScoreFlatUnchecked ==
    /\ pc = "score_flat"
    /\ stages' = Append(stages, "score_flat")
    /\ mats' = DeriveWL(IF score_flat = None THEN <<>> ELSE score_flat.rows,
                        AxisOf(filtered_wr))
    /\ pc' = "auto_k" /\ err' = err
    /\ UNCHANGED <<nan_filter, filtered_wr, n_dir, score_flat, top_meta_df, cfg, v, meta,
                   auto_k, post, mas_df, bt, score_pct, cov, ranking, rng, run, first>>

ScoreFlat ==
    /\ pc = "score_flat"
    /\ stages' = Append(stages, "score_flat")
    /\ IF score_flat = None \/ IsEmpty(score_flat)
       THEN Raise("MissingScoreFlat") /\ mats' = mats
       ELSE /\ mats' = DeriveWL(score_flat.rows, AxisOf(filtered_wr))
            /\ pc' = "auto_k" /\ err' = err
    /\ UNCHANGED <<nan_filter, filtered_wr, n_dir, score_flat, top_meta_df, cfg, v, meta,
                   auto_k, post, mas_df, bt, score_pct, cov, ranking, rng, run, first>>

\* The call of auto_k_cv with its errors swallowed: the run goes on with K_MIN
AutoKFallback ==
    /\ pc = "auto_k"
    /\ stages' = Append(stages, "auto_k")
    /\ LET a == AutoKSetup(mats.S, mats.F, mats.N, cfg)
       IN  IF a.error # "none"
           THEN auto_k' = [K_used |-> cfg.K_MIN] /\ pc' = "posterior" /\ err' = err
           ELSE auto_k' = a /\ pc' = "auto_k_expand" /\ err' = err
    /\ UNCHANGED <<nan_filter, filtered_wr, n_dir, score_flat, top_meta_df, cfg, v, meta, mats,
                   post, mas_df, bt, score_pct, cov, ranking, rng, run, first>>

AutoK ==
    /\ pc = "auto_k"
    /\ stages' = Append(stages, "auto_k")
    /\ LET a == AutoKSetup(mats.S, mats.F, mats.N, cfg)
       IN  IF a.error # "none"
           THEN Raise("AutoK: " \o a.error) /\ auto_k' = auto_k
           ELSE auto_k' = a /\ pc' = "auto_k_expand" /\ err' = err
    /\ UNCHANGED <<nan_filter, filtered_wr, n_dir, score_flat, top_meta_df, cfg, v, meta, mats,
                   post, mas_df, bt, score_pct, cov, ranking, rng, run, first>>

AutoKExpand ==
    /\ pc = "auto_k_expand"
    /\ CanExpand(auto_k, cfg)
    /\ auto_k' = ExpandOnce(auto_k, cfg)
    /\ UNCHANGED <<nan_filter, filtered_wr, n_dir, score_flat, top_meta_df, cfg, pc, stages, err,
                   v, meta, mats, post, mas_df, bt, score_pct, cov, ranking, rng,
                   run, first>>

AutoKReturn ==
    /\ pc = "auto_k_expand"
    /\ ~CanExpand(auto_k, cfg)
    /\ LET d == AutoKDecide(auto_k, cfg, default_rng(cfg))
       IN  auto_k' = d.res /\ rng' = d.st
    /\ pc' = "posterior"
    /\ UNCHANGED <<nan_filter, filtered_wr, n_dir, score_flat, top_meta_df, cfg, stages, err,
                   v, meta, mats, post, mas_df, bt, score_pct, cov, ranking,
                   run, first>>

\* The call of a posterior_dir that replaces the NaN of S and F by 0 in the
\* caller's frames instead of in copies of them
PosteriorInPlace ==
    /\ pc = "posterior"
    /\ stages' = Append(stages, "posterior")
    /\ post' = posterior_dir(mats.S, mats.F, auto_k.K_used, cfg)
    /\ mats' = [mats EXCEPT !.S = Frame(mats.S.index, mats.S.columns,
                                        LAMBDA a, b : Fill0(Loc(mats.S, a, b))),
                            !.F = Frame(mats.F.index, mats.F.columns,
                                        LAMBDA a, b : Fill0(Loc(mats.F, a, b)))]
    /\ pc' = "mas_se_lb"
    /\ UNCHANGED <<nan_filter, filtered_wr, n_dir, score_flat, top_meta_df, cfg, err, v, meta,
                   auto_k, mas_df, bt, score_pct, cov, ranking, rng, run, first>>

Posterior ==
    /\ pc = "posterior"
    /\ stages' = Append(stages, "posterior")
    /\ post' = posterior_dir(mats.S, mats.F, auto_k.K_used, cfg)
    /\ pc' = "mas_se_lb"
    /\ UNCHANGED <<nan_filter, filtered_wr, n_dir, score_flat, top_meta_df, cfg, err, v, meta,
                   mats, auto_k, mas_df, bt, score_pct, cov, ranking, rng, run, first>>

MasSeLb ==
    /\ pc = "mas_se_lb"
    /\ stages' = Append(stages, "mas_se_lb")
    /\ mas_df' = mas_se_lb(post.p_hat, post.var_hat, meta.p_weights, mats.N, cfg)
    /\ pc' = "bt_soft"
    /\ UNCHANGED <<nan_filter, filtered_wr, n_dir, score_flat, top_meta_df, cfg, err, v, meta,
                   mats, auto_k, post, bt, score_pct, cov, ranking, rng, run, first>>

\* bt_soft refusing to go on when the pre-selection keeps no edge
BtSetupNoFallback ==
    /\ pc = "bt_soft"
    /\ stages' = Append(stages, "bt_soft")
    /\ LET ax == AxisOf(filtered_wr)
           r  == bt_soft(ax, mats.N, post.p_hat, auto_k.K_used, cfg)
       IN  IF r.pairs = <<>> \/ r.raised # "none"
           THEN Raise("AssertionError") /\ bt' = bt
           ELSE /\ bt' = [pairs |-> r.pairs, diag |-> r.diag,
                          pi |-> [d \in Range(ax) |-> ONE], iter |-> 0, converged |-> FALSE]
                /\ pc' = "bt_mm" /\ err' = err
    /\ UNCHANGED <<nan_filter, filtered_wr, n_dir, score_flat, top_meta_df, cfg, v, meta, mats,
                   auto_k, post, mas_df, score_pct, cov, ranking, rng, run, first>>

\* bt_soft up to the MM loop: the fallback result when no edge is kept, an
\* AssertionError when a soft pair fails its sanity check
BtSetup ==
    /\ pc = "bt_soft"
    /\ stages' = Append(stages, "bt_soft")
    /\ LET ax == AxisOf(filtered_wr)
           pf == Prefilter(ax, mats.N, post.p_hat, auto_k.K_used, cfg)
           dg == SoftPower(ax, pf.info_kept, pf.s_min, cfg)
           sp == [k \in 1..Len(pf.info_kept) |-> SoftPair(pf.info_kept[k], dg.BT_SOFT_POWER)]
       IN  IF pf.info_kept = <<>>
           THEN /\ bt' = [bt_pct |-> [d \in Range(ax) |-> 50 * ONE],
                          diag |-> [kept |-> 0, dropped |-> pf.edges_drop, s_min |-> pf.s_min],
                          pairs |-> <<>>]
                /\ pc' = "compose" /\ err' = err
           ELSE IF \E k \in 1..Len(sp) : sp[k].raised # "none"
           THEN Raise("AssertionError") /\ bt' = bt
           ELSE /\ bt' = [pairs |-> [k \in 1..Len(sp) |->
                                        [ai |-> sp[k].ai, aj |-> sp[k].aj, n_eff |-> sp[k].n_eff,
                                         w_ij |-> sp[k].w_ij, w_ji |-> sp[k].w_ji]],
                          diag |-> dg @@ [dropped |-> pf.edges_drop],
                          pi |-> [d \in Range(ax) |-> ONE], iter |-> 0, converged |-> FALSE]
                /\ pc' = "bt_mm" /\ err' = err
    /\ UNCHANGED <<nan_filter, filtered_wr, n_dir, score_flat, top_meta_df, cfg, v, meta, mats,
                   auto_k, post, mas_df, score_pct, cov, ranking, rng, run, first>>

\* One pass of a loop without the cap on its iterations
BtSweepUncapped ==
    /\ pc = "bt_mm"
    /\ ~bt.converged
    /\ LET sw == MMSweep(AxisOf(filtered_wr), bt.pairs, bt.pi, cfg)
       IN  bt' = [bt EXCEPT !.pi = sw.pi, !.iter = @ + 1, !.converged = sw.converged]
    /\ UNCHANGED <<nan_filter, filtered_wr, n_dir, score_flat, top_meta_df, cfg, pc, stages, err,
                   v, meta, mats, auto_k, post, mas_df, score_pct, cov, ranking, rng,
                   run, first>>

\* One pass of the MM loop
BtSweep ==
    /\ pc = "bt_mm"
    /\ bt.iter < cfg.MAX_BT_ITER /\ ~bt.converged
    /\ LET sw == MMSweep(AxisOf(filtered_wr), bt.pairs, bt.pi, cfg)
       IN  bt' = [bt EXCEPT !.pi = sw.pi, !.iter = @ + 1, !.converged = sw.converged]
    /\ UNCHANGED <<nan_filter, filtered_wr, n_dir, score_flat, top_meta_df, cfg, pc, stages, err,
                   v, meta, mats, auto_k, post, mas_df, score_pct, cov, ranking, rng,
                   run, first>>

\* The loop is left: scale, map and return
BtFinish ==
    /\ pc = "bt_mm"
    /\ bt.iter >= cfg.MAX_BT_ITER \/ bt.converged
    /\ bt' = [bt_pct |-> BtScale(AxisOf(filtered_wr), bt.pi), diag |-> bt.diag,
              pairs |-> bt.pairs, pi |-> bt.pi, iter |-> bt.iter]
    /\ pc' = "compose"
    /\ UNCHANGED <<nan_filter, filtered_wr, n_dir, score_flat, top_meta_df, cfg, stages, err,
                   v, meta, mats, auto_k, post, mas_df, score_pct, cov, ranking, rng,
                   run, first>>

Compose ==
    /\ pc = "compose"
    /\ stages' = Append(stages, "compose")
    /\ score_pct' = compose(AxisOf(filtered_wr), [d \in DOMAIN mas_df |-> mas_df[d].LB],
                            bt.bt_pct, cfg.ALPHA_COMPOSITE)
    /\ pc' = "coverage"
    /\ UNCHANGED <<nan_filter, filtered_wr, n_dir, score_flat, top_meta_df, cfg, err, v, meta,
                   mats, auto_k, post, mas_df, bt, cov, ranking, rng, run, first>>

Coverage ==
    /\ pc = "coverage"
    /\ stages' = Append(stages, "coverage")
    /\ cov' = coverage_tables(mats.N, AxisOf(filtered_wr))
    /\ pc' = "assemble"
    /\ UNCHANGED <<nan_filter, filtered_wr, n_dir, score_flat, top_meta_df, cfg, err, v, meta,
                   mats, auto_k, post, mas_df, bt, score_pct, ranking, rng, run, first>>

\* The ranking is assembled and run_mars returns
Assemble ==
    /\ pc = "assemble"
    /\ stages' = Append(stages, "assemble")
    /\ ranking' = Assembled(AxisOf(filtered_wr), mats.N, score_pct, mas_df, bt.bt_pct)
    /\ pc' = "returned"
    /\ UNCHANGED <<nan_filter, filtered_wr, n_dir, score_flat, top_meta_df, cfg, err, v, meta,
                   mats, auto_k, post, mas_df, bt, score_pct, cov, rng, run, first>>

\* What a finished call leaves its caller: the exception, or the ranking, the
\* diagnostics and the coverage tables
Outcome ==
    [err |-> err, ranking |-> ranking,
     diag |-> [AUTO_K |-> auto_k, META |-> IF meta = Unset THEN Unset ELSE meta.info,
               BT |-> IF bt = Unset THEN Unset ELSE bt.diag],
     coverage |-> cov, score_pct |-> score_pct, mas_df |-> mas_df,
     bt_pct |-> IF bt = Unset THEN Unset ELSE bt.bt_pct]

Finished == pc \in {"returned", "raised"}

\* The process calls run_mars a second time on the same inputs
Restart ==
    /\ Finished /\ run = 1
    /\ first' = Outcome
    /\ run' = 2
    /\ pc' = "validate" /\ stages' = <<>> /\ err' = "none"
    /\ v' = Unset /\ meta' = Unset /\ mats' = Unset /\ auto_k' = Unset
    /\ post' = Unset /\ mas_df' = Unset /\ bt' = Unset /\ score_pct' = Unset
    /\ cov' = Unset /\ ranking' = Unset
    /\ UNCHANGED <<nan_filter, filtered_wr, n_dir, score_flat, top_meta_df, cfg, rng>>

-----------------------------------------------------------------------------
(* core/nan_filter.py: filter_wr_nan_iterative *)

\* allowed = max(min_nan_allowed, floor or ceil of (T0 - 1) * max_nan_ratio), the
\* ratio in units of 1/ONE
Allowed(T0, max_nan_ratio, min_nan_allowed, use_ceil) ==
    LET base == Max(0, T0 - 1) * max_nan_ratio
    IN  Max(min_nan_allowed, IF use_ceil THEN 0 - ((0 - base) \div ONE) ELSE base \div ONE)

\* _offdiag_nan_counts: per row the NaN cells less the row's NaN diagonal cell
_offdiag_nan_counts(df) ==
    [d \in Range(df.index) |->
        Cardinality({c \in Range(df.columns) : IsNaN(Loc(df, d, c))})
        - (IF IsNaN(Loc(df, d, d)) THEN 1 ELSE 0)]

\* over = counts - allowed where it is positive: the decks over the threshold
OverDecks(df, allowed) ==
    {d \in Range(df.index) : _offdiag_nan_counts(df)[d] - allowed > 0}

\* Every deck over the threshold, not only those of the largest excess
ToDropAllOver(df, allowed) ==
    SelectSeq(df.index, LAMBDA d : d \in OverDecks(df, allowed))

\* to_drop: the decks of the largest excess, in the order of the axis
ToDrop(df, allowed) ==
    SelectSeq(df.index, LAMBDA d :
        /\ d \in OverDecks(df, allowed)
        /\ \A e \in OverDecks(df, allowed) :
               _offdiag_nan_counts(df)[e] <= _offdiag_nan_counts(df)[d])

\* cur.drop(index=to_drop, columns=to_drop)
DropDecks(df, to_drop) ==
    Reindex(df, SelectSeq(df.index, LAMBDA d : d \notin Range(to_drop)))

\* The call: the threshold is computed once, cur is a copy of wr
NanFilterCall(wr, max_nan_ratio, min_nan_allowed, use_ceil) ==
    [wr |-> wr, max_nan_ratio |-> max_nan_ratio, min_nan_allowed |-> min_nan_allowed,
     use_ceil |-> use_ceil,
     allowed |-> Allowed(Len(wr.index), max_nan_ratio, min_nan_allowed, use_ceil),
     cur |-> wr, dropped |-> <<>>, it |-> 0, pc |-> "loop"]

\* The loop goes on: more than 2 decks are left and one is over the threshold
NanFilterGoesOn(nf) ==
    Len(nf.cur.index) > 2 /\ OverDecks(nf.cur, nf.allowed) # {}

\* One pass of the loop that drops decks
NanFilterDrop ==
    /\ pc = "nan_filter" /\ nan_filter.pc = "loop"
    /\ NanFilterGoesOn(nan_filter)
    /\ LET to_drop == ToDrop(nan_filter.cur, nan_filter.allowed)
       IN  nan_filter' = [nan_filter EXCEPT !.cur = DropDecks(@, to_drop),
                                            !.dropped = @ \o to_drop,
                                            !.it = @ + 1]
    /\ UNCHANGED <<filtered_wr, n_dir, score_flat, top_meta_df, cfg, pc, stages, err,
                   v, meta, mats, auto_k, post, mas_df, bt, score_pct, cov, ranking,
                   rng, run, first>>

\* The loop breaks and (cur, dropped) is returned
NanFilterReturn ==
    /\ pc = "nan_filter" /\ nan_filter.pc = "loop"
    /\ ~NanFilterGoesOn(nan_filter)
    /\ nan_filter' = [nan_filter EXCEPT !.pc = "returned"]
    /\ UNCHANGED <<filtered_wr, n_dir, score_flat, top_meta_df, cfg, pc, stages, err,
                   v, meta, mats, auto_k, post, mas_df, bt, score_pct, cov, ranking,
                   rng, run, first>>

-----------------------------------------------------------------------------
(* The runs that are checked *)

XYGames == UNION {Games(n) : n \in 0..MaxN}
YZGames == {<<0, 0>>, <<1, 1>>, <<5, 1>>}
XZGames == {<<0, 0>>, <<2, 3>>}

FlatOf(xy, yz, xz) == PairRows("X", "Y", xy) \o PairRows("Y", "Z", yz) \o PairRows("X", "Z", xz)

TopMetas ==
    {None,
     MetaTable(<<<<"X", 50 * ONE>>, <<"Y", 20 * ONE>>, <<"Q", 10 * ONE>>>>)}

\* Runs on the matrices the upstream stages build from a flat table of games
InitData ==
    \E xy \in XYGames, yz \in YZGames, xz \in XZGames, tm \in TopMetas :
        StartOn(FlatOf(xy, yz, xz), tm, DefaultCfg)

\* A frame with one cell replaced
WithCell(df, r, c, x) == [df EXCEPT !.val[<<r, c>>] = x]

\* Pairs of matrices that keep or break the contract
ContractCases ==
    LET rows == FlatOf(<<4, 2>>, <<5, 1>>, <<0, 0>>)
        wr   == UpstreamWR(rows, Axis)
        nd   == UpstreamNDir(rows, Axis)
        perm == <<"Y", "X", "Z">>
    IN  {<<wr, nd>>,
         <<WithCell(wr, "X", "X", 50 * ONE), nd>>,
         <<wr, WithCell(nd, "Y", "Y", 0)>>,
         <<wr, Reindex(nd, perm)>>,
         <<wr, Frame(<<"X", "Y">>, <<"X", "Y">>, LAMBDA a, b : Loc(nd, a, b))>>,
         <<WithCell(wr, "X", "Y", 70 * ONE), nd>>,
         <<wr, WithCell(nd, "X", "Y", 7)>>,
         <<WithCell(wr, "X", "Y", 70 * ONE), WithCell(nd, "X", "Y", 7)>>}

\* Runs that meet the two gates of run_mars: the contract and score_flat
InitGate ==
    \E m \in ContractCases,
       sf \in {None, FlatTable(<<>>), FlatTable(FlatOf(<<4, 2>>, <<5, 1>>, <<0, 0>>))} :
        Start(m[1], m[2], sf, None, DefaultCfg)

\* Flat tables the upstream stages would not build: a pair in one direction
\* only, a pair without games, a deck against itself, a pair listed twice
OddFlats ==
    {<<Row("X", "Y", 3, 2)>>,
     <<Row("X", "Y", 0, 0), Row("Y", "X", 0, 0)>>,
     <<Row("X", "Y", 0, 6)>>,
     FlatOf(<<3, 3>>, <<0, 0>>, <<0, 0>>) \o <<Row("X", "X", 2, 2)>>,
     FlatOf(<<2, 1>>, <<0, 0>>, <<0, 0>>) \o FlatOf(<<2, 1>>, <<0, 0>>, <<0, 0>>)}

InitOdd == \E rows \in OddFlats : StartOn(rows, None, DefaultCfg)

\* Configurations away from the defaults
Configs ==
    {[DefaultCfg EXCEPT !.K_CONST_BOUNDS = <<10 * ONE, 50 * ONE>>],
     [DefaultCfg EXCEPT !.K_CONST_BOUNDS = <<K_LO_USER, 2 * ONE>>],
     [DefaultCfg EXCEPT !.K_MIN = 3 * ONE],
     [DefaultCfg EXCEPT !.BT_SOFT_POWER = 2 * ONE, !.BT_USE_HARMONIC_N = FALSE],
     [DefaultCfg EXCEPT !.AUTO_GAMMA = TRUE, !.META_GAP_POLICY = "uniform"]}

InitCfg ==
    \E c \in Configs, xy \in {<<1, 1>>, <<4, 2>>, <<0, 6>>}, yz \in {<<0, 0>>, <<5, 1>>},
       tm \in TopMetas :
        StartOn(FlatOf(xy, yz, <<0, 0>>), tm, c)

Init == InitData \/ InitGate \/ InitOdd \/ InitCfg

Next ==
    \/ Validate \/ BlendMeta \/ ScoreFlat \/ AutoK \/ AutoKExpand \/ AutoKReturn
    \/ Posterior \/ MasSeLb \/ BtSetup \/ BtSweep \/ BtFinish \/ Compose \/ Coverage
    \/ Assemble \/ Restart

Spec == Init /\ [][Next]_vars

-----------------------------------------------------------------------------
(* validate_contract on its own, over matrices of any shape *)

Labelings == {<<"X", "Y">>, <<"Y", "X">>, <<"X", "Y", "Z">>}

\* A win-rate cell: kind "clean" sums to 100 with its mirror, "off" does not,
\* "diag" also defines the cell of a deck against itself, "nan" defines nothing
WrCell(kind, a, b) ==
    IF kind = "nan" THEN NaN
    ELSE IF a = b THEN (IF kind = "diag" THEN 50 * ONE ELSE NaN)
    ELSE IF kind = "off" THEN 60 * ONE
    ELSE IF DeckOrd(a) < DeckOrd(b) THEN 60 * ONE ELSE 40 * ONE

\* A count cell: kind "asym" differs from its mirror, "diag" defines the diagonal
NdCell(kind, a, b) ==
    IF a = b THEN (IF kind = "diag" THEN 0 ELSE NaN)
    ELSE IF kind = "asym" /\ DeckOrd(a) < DeckOrd(b) THEN 4 ELSE 3

InitValidate ==
    \E wi \in Labelings, wc \in Labelings, ni \in Labelings, nc \in Labelings,
       wk \in {"clean", "off", "diag", "nan"}, nk \in {"clean", "asym", "diag"} :
        Start(Frame(wi, wc, LAMBDA a, b : WrCell(wk, a, b)),
              Frame(ni, nc, LAMBDA a, b : NdCell(nk, a, b)),
              None, None, DefaultCfg)

SpecValidate == InitValidate /\ [][Validate]_vars

-----------------------------------------------------------------------------
(* blend_meta on its own, over axes, counts and usage tables *)

Axes == {<<"X">>, <<"X", "Y">>, Axis}

\* A usage table with the given columns, of which share holds numbers
UsageTable(deck, share, numeric, rows) ==
    [columns |-> <<deck, share>>, numeric |-> IF numeric THEN {share} ELSE {},
     rows |-> [i \in 1..Len(rows) |->
                 [c \in {deck, share} |-> IF c = deck THEN rows[i][1] ELSE rows[i][2]]]]

UsageTables ==
    {None,
     UsageTable("Deck", "Share_%", TRUE, <<>>),
     UsageTable("Player", "Share_%", TRUE, <<<<"X", 50 * ONE>>>>),
     UsageTable("Deck", "Comment", FALSE, <<<<"X", 0>>>>),
     UsageTable("Deck", "Share_%", TRUE, <<<<"X", 50 * ONE>>, <<"Y", 20 * ONE>>, <<"Q", 10 * ONE>>>>),
     UsageTable("Name", "Share_frac", TRUE, <<<<"X", 250>>, <<"Z", 150>>>>),
     UsageTable("Deck", "Usage_%", TRUE, <<<<"X", 80 * ONE>>, <<"Y", 70 * ONE>>, <<"X", 10 * ONE>>>>),
     UsageTable("Deck", "Share", TRUE, <<<<"X", 0>>, <<"Y", 0>>>>),
     UsageTable("Deck", "Meta_%", TRUE, <<<<"Q", 40 * ONE>>, <<"R", NaN>>>>)}

CountMatrices ==
    {UpstreamNDir(rows, Axis) :
        rows \in {<<>>, FlatOf(<<1, 1>>, <<0, 0>>, <<0, 0>>), FlatOf(<<4, 2>>, <<5, 1>>, <<0, 0>>),
                  FlatOf(<<0, 0>>, <<1, 0>>, <<2, 3>>), <<Row("X", "Y", 3, 2)>>}}
    \cup {Frame(<<"Y", "Z">>, <<"Y", "Z">>, LAMBDA a, b : IF a = b THEN NaN ELSE 2)}

InitMeta ==
    \E ax \in Axes, nd \in CountMatrices, tm \in UsageTables,
       policy \in {"encounter", "uniform", "proportional"}, ag \in BOOLEAN :
        /\ filtered_wr = Frame(ax, ax, LAMBDA a, b : NaN) /\ n_dir = nd
        /\ score_flat = None /\ top_meta_df = tm
        /\ cfg = [DefaultCfg EXCEPT !.META_GAP_POLICY = policy, !.AUTO_GAMMA = ag]
        /\ pc = "blend_meta" /\ stages = <<"validate">> /\ err = "none"
        /\ v = [ok |-> TRUE, issues |-> <<>>]
        /\ meta = Unset /\ mats = Unset /\ auto_k = Unset
        /\ post = Unset /\ mas_df = Unset /\ bt = Unset /\ score_pct = Unset
        /\ cov = Unset /\ ranking = Unset
        /\ rng = NoRng /\ run = 1 /\ first = Unset /\ nan_filter = Unset

SpecMeta == InitMeta /\ [][BlendMeta]_vars

-----------------------------------------------------------------------------
(* bt_soft called on its own: the matrices of a flat table, a K and the *)
(* posterior posterior_dir gives for them                                *)

\* The values of K_used the calls are made with
KValues == {ONE \div 8, 2 * ONE, 20 * ONE}

BtConfigs == {DefaultCfg, [DefaultCfg EXCEPT !.BT_SOFT_POWER = 2 * ONE, !.BT_USE_HARMONIC_N = FALSE]}

InitBt ==
    \E xy \in XYGames, yz \in YZGames, xz \in XZGames, K \in KValues, c \in BtConfigs :
        LET rows == FlatOf(xy, yz, xz)
            m    == DeriveWL(rows, Axis)
        IN  /\ filtered_wr = UpstreamWR(rows, Axis) /\ n_dir = UpstreamNDir(rows, Axis)
            /\ score_flat = FlatTable(rows) /\ top_meta_df = None /\ cfg = c
            /\ pc = "bt_soft" /\ stages = <<>> /\ err = "none"
            /\ v = Unset /\ meta = Unset /\ mats = m /\ auto_k = [K_used |-> K]
            /\ post = posterior_dir(m.S, m.F, K, c)
            /\ mas_df = Unset /\ bt = Unset /\ score_pct = Unset
            /\ cov = Unset /\ ranking = Unset
            /\ rng = NoRng /\ run = 1 /\ first = Unset /\ nan_filter = Unset

SpecBt == InitBt /\ [][BtSetup \/ BtSweep \/ BtFinish]_vars

\* The MM loop is sequential code: while its condition holds, the next sweep runs
SpecBtFair == SpecBt /\ WF_vars(BtSweep)

-----------------------------------------------------------------------------
(* compose called on its own, on vectors of LB_% and BT_% and a weight alpha *)

LbValues == {NaN, 20 * ONE, 55 * ONE}
BtValues == {30 * ONE, 50 * ONE, 80 * ONE}
Alphas == {0, ALPHA_COMPOSITE, ONE}

InitCompose ==
    \E lb \in [Range(Axis) -> LbValues], b \in [Range(Axis) -> BtValues], alpha \in Alphas :
        /\ filtered_wr = UpstreamWR(<<>>, Axis) /\ n_dir = UpstreamNDir(<<>>, Axis)
        /\ score_flat = None /\ top_meta_df = None
        /\ cfg = [DefaultCfg EXCEPT !.ALPHA_COMPOSITE = alpha]
        /\ pc = "compose" /\ stages = <<>> /\ err = "none"
        /\ v = Unset /\ meta = Unset /\ mats = Unset /\ auto_k = Unset /\ post = Unset
        /\ mas_df = [d \in Range(Axis) |-> [MAS |-> lb[d], SE |-> 0, LB |-> lb[d]]]
        /\ bt = [bt_pct |-> b]
        /\ score_pct = Unset /\ cov = Unset /\ ranking = Unset
        /\ rng = NoRng /\ run = 1 /\ first = Unset /\ nan_filter = Unset

SpecCompose == InitCompose /\ [][Compose]_vars

-----------------------------------------------------------------------------
(* coverage_tables called on its own, over axes of one, two and three decks *)

CoverageFlats ==
    {FlatOf(xy, yz, xz) : xy \in {<<0, 0>>, <<1, 1>>, <<3, 0>>}, yz \in YZGames, xz \in XZGames}
    \cup OddFlats

InitCoverage ==
    \E ax \in Axes, rows \in CoverageFlats :
        /\ filtered_wr = UpstreamWR(rows, ax) /\ n_dir = UpstreamNDir(rows, ax)
        /\ score_flat = FlatTable(rows) /\ top_meta_df = None /\ cfg = DefaultCfg
        /\ pc = "coverage" /\ stages = <<>> /\ err = "none"
        /\ v = Unset /\ meta = Unset /\ mats = DeriveWL(rows, ax) /\ auto_k = Unset
        /\ post = Unset /\ mas_df = Unset /\ bt = Unset /\ score_pct = Unset
        /\ cov = Unset /\ ranking = Unset
        /\ rng = NoRng /\ run = 1 /\ first = Unset /\ nan_filter = Unset

SpecCoverage == InitCoverage /\ [][Coverage]_vars

-----------------------------------------------------------------------------
(* auto_k_cv called on its own up to its first selection, over the cell      *)
(* counts of a flat table and the fraction rho of a cell that is held out    *)

\* Values of cfg.RHO_TEST, inside and outside (0, 1)
Rhos == {-ONE, 0, 1, RHO_TEST, ONE \div 2, ONE - 1, ONE, 3 * ONE}

InitSplit ==
    \E xy \in XYGames, yz \in YZGames, rho \in Rhos :
        LET rows == FlatOf(xy, yz, <<0, 0>>)
        IN  /\ filtered_wr = UpstreamWR(rows, Axis) /\ n_dir = UpstreamNDir(rows, Axis)
            /\ score_flat = FlatTable(rows) /\ top_meta_df = None
            /\ cfg = [DefaultCfg EXCEPT !.RHO_TEST = rho]
            /\ pc = "auto_k" /\ stages = <<>> /\ err = "none"
            /\ v = Unset /\ meta = Unset /\ mats = DeriveWL(rows, Axis) /\ auto_k = Unset
            /\ post = Unset /\ mas_df = Unset /\ bt = Unset /\ score_pct = Unset
            /\ cov = Unset /\ ranking = Unset
            /\ rng = NoRng /\ run = 1 /\ first = Unset /\ nan_filter = Unset

SpecSplit == InitSplit /\ [][AutoK]_vars

-----------------------------------------------------------------------------
(* mas_se_lb called on its own: the matrices of a flat table, the posterior *)
(* of a fixed K, and meta weights that need not add up to 1                 *)

MetaWeightValues == {0, ONE \div 4, ONE \div 2}

InitMas ==
    \E xy \in {<<0, 0>>, <<3, 1>>}, yz \in {<<0, 0>>, <<1, 1>>}, xz \in XZGames,
       w \in [Range(Axis) -> MetaWeightValues] :
        LET rows == FlatOf(xy, yz, xz)
            m    == DeriveWL(rows, Axis)
        IN  /\ filtered_wr = UpstreamWR(rows, Axis) /\ n_dir = UpstreamNDir(rows, Axis)
            /\ score_flat = FlatTable(rows) /\ top_meta_df = None /\ cfg = DefaultCfg
            /\ pc = "mas_se_lb" /\ stages = <<>> /\ err = "none"
            /\ v = Unset /\ meta = [p_weights |-> w] /\ mats = m
            /\ auto_k = [K_used |-> 2 * ONE]
            /\ post = posterior_dir(m.S, m.F, 2 * ONE, DefaultCfg)
            /\ mas_df = Unset /\ bt = Unset /\ score_pct = Unset
            /\ cov = Unset /\ ranking = Unset
            /\ rng = NoRng /\ run = 1 /\ first = Unset /\ nan_filter = Unset

SpecMas == InitMas /\ [][MasSeLb]_vars

-----------------------------------------------------------------------------
(* The pre-selection of bt_soft on its own, over pairs whose two directions *)
(* have different numbers of games                                          *)

\* The rows of a pair with n1 games of a against b and n2 of b against a
DirRows(a, b, n1, n2) ==
    (IF n1 > 0 THEN <<Row(a, b, n1 - n1 \div 2, n1 \div 2)>> ELSE <<>>)
    \o (IF n2 > 0 THEN <<Row(b, a, n2 - n2 \div 2, n2 \div 2)>> ELSE <<>>)

InitEdges ==
    \E n1 \in 0..MaxN, n2 \in 0..MaxN, yz \in YZGames, K \in KValues :
        LET rows == DirRows("X", "Y", n1, n2) \o PairRows("Y", "Z", yz)
            m    == DeriveWL(rows, Axis)
        IN  /\ filtered_wr = UpstreamWR(rows, Axis) /\ n_dir = UpstreamNDir(rows, Axis)
            /\ score_flat = FlatTable(rows) /\ top_meta_df = None /\ cfg = DefaultCfg
            /\ pc = "bt_soft" /\ stages = <<>> /\ err = "none"
            /\ v = Unset /\ meta = Unset /\ mats = m /\ auto_k = [K_used |-> K]
            /\ post = posterior_dir(m.S, m.F, K, DefaultCfg)
            /\ mas_df = Unset /\ bt = Unset /\ score_pct = Unset
            /\ cov = Unset /\ ranking = Unset
            /\ rng = NoRng /\ run = 1 /\ first = Unset /\ nan_filter = Unset

SpecEdges == InitEdges /\ [][BtSetup]_vars

-----------------------------------------------------------------------------
(* filter_wr_nan_iterative called on winrate matrices of up to four decks *)

FilterAxis == <<"X", "Y", "Z", "Q">>

\* The unordered pairs of the four decks
FilterPairs ==
    {<<FilterAxis[ij[1]], FilterAxis[ij[2]]>> :
        ij \in {q \in (1..Len(FilterAxis)) \X (1..Len(FilterAxis)) : q[1] < q[2]}}

\* Cells that are undefined in one direction only, and a defined diagonal cell
OneWayGaps == {{}, {<<"X", "Y">>}, {<<"Q", "X">>, <<"Q", "Y">>, <<"Z", "Z">>}}

\* The matrix on ax whose undefined cells are the diagonal, the pairs of gaps in
\* both directions, and the cells of one_way (a diagonal cell of one_way is
\* defined instead)
GapMatrix(ax, gaps, one_way) ==
    Frame(ax, ax, LAMBDA a, b :
        IF a = b THEN (IF <<a, b>> \in one_way THEN 50 * ONE ELSE NaN)
        ELSE IF <<a, b>> \in gaps \/ <<b, a>> \in gaps \/ <<a, b>> \in one_way THEN NaN
        ELSE 50 * ONE)

InitNanFilter ==
    \E gaps \in SUBSET FilterPairs, one_way \in OneWayGaps,
       ax \in {FilterAxis, SubSeq(FilterAxis, 1, 3), SubSeq(FilterAxis, 1, 2)},
       ratio \in {0, 340, ONE \div 2}, min_allowed \in {0, 1}, use_ceil \in BOOLEAN :
        /\ nan_filter = NanFilterCall(GapMatrix(ax, gaps, one_way), ratio, min_allowed, use_ceil)
        /\ filtered_wr = Unset /\ n_dir = Unset /\ score_flat = None /\ top_meta_df = None
        /\ cfg = DefaultCfg
        /\ pc = "nan_filter" /\ stages = <<>> /\ err = "none"
        /\ v = Unset /\ meta = Unset /\ mats = Unset /\ auto_k = Unset
        /\ post = Unset /\ mas_df = Unset /\ bt = Unset /\ score_pct = Unset
        /\ cov = Unset /\ ranking = Unset
        /\ rng = NoRng /\ run = 1 /\ first = Unset

\* The function is sequential code: the statement that can run does run
SpecNanFilter ==
    /\ InitNanFilter /\ [][NanFilterDrop \/ NanFilterReturn]_vars
    /\ WF_vars(NanFilterDrop) /\ WF_vars(NanFilterReturn)

-----------------------------------------------------------------------------
(* Properties *)

Returned == pc = "returned"

\* A deck with at least one observed opponent
HasObservedOpponent(d) == \E b \in Range(AxisOf(filtered_wr)) : Obs(mats.N, d, b)

\* A percentage within [0, 100]
InPercentRange(x) == ~IsNaN(x) /\ 0 <= x /\ x <= 100 * ONE

\* C1: the ranking a successful run returns holds every deck of the axis exactly
\* once, its rows are in non-increasing order of Score_%, and its Rank index is
\* 1, 2, ..., T.
RankingWellFormed ==
    Returned =>
        LET ax == AxisOf(filtered_wr)
            T  == Len(ax)
        IN  /\ Len(ranking.rows) = T
            /\ \A d \in Range(ax) :
                   Cardinality({k \in 1..T : ranking.rows[k].Deck = d}) = 1
            /\ \A k \in 1..(T - 1) :
                   /\ ~IsNaN(ranking.rows[k].Score) /\ ~IsNaN(ranking.rows[k + 1].Score)
                   /\ ranking.rows[k].Score >= ranking.rows[k + 1].Score
            /\ ranking.index = [k \in 1..T |-> k]

\* A returned ranking whose order is not the order of the axis and whose scores differ
RankingReordered ==
    /\ Returned
    /\ ranking.rows[1].Deck # AxisOf(filtered_wr)[1]
    /\ ranking.rows[1].Score > ranking.rows[Len(ranking.rows)].Score

\* C2: every deck with at least one observed opponent gets MAS_%, BT_% and
\* Score_% within [0, 100].
ScoresWithinRange ==
    Returned =>
        \A k \in 1..Len(ranking.rows) :
            HasObservedOpponent(ranking.rows[k].Deck) =>
                /\ InPercentRange(ranking.rows[k].MAS)
                /\ InPercentRange(ranking.rows[k].BT)
                /\ InPercentRange(ranking.rows[k].Score)

\* A returned ranking with an observed deck scored above 50 and one below, on a
\* fitted Bradley-Terry model
ScoresSpread ==
    /\ Returned
    /\ bt.pairs # <<>>
    /\ \E k \in 1..Len(ranking.rows) :
           HasObservedOpponent(ranking.rows[k].Deck) /\ ranking.rows[k].Score > 50 * ONE
    /\ \E k \in 1..Len(ranking.rows) :
           HasObservedOpponent(ranking.rows[k].Deck) /\ ranking.rows[k].BT < 50 * ONE

\* C3: every deck with at least one observed opponent gets an LB_% within
\* [0, 100]; in particular LB_% is never negative.
LBWithinRange ==
    Returned =>
        \A k \in 1..Len(ranking.rows) :
            HasObservedOpponent(ranking.rows[k].Deck) => InPercentRange(ranking.rows[k].LB)

\* C4: a second run on the same inputs, configuration and seed ends as the
\* first did: the same exception or the same K_used, reason, diagnostics,
\* ranking and scores.
SecondRunRepeatsFirst == (run = 2 /\ Finished) => Outcome = first

\* A second run has returned after a bootstrap whose resamples did not all
\* choose the same K
SecondRunResampled ==
    /\ run = 2 /\ Returned
    /\ \E i \in 1..Len(auto_k.K_boot) : auto_k.K_boot[i] # auto_k.K_boot[1]
    /\ rng # NoRng

\* auto_k_cv has returned
AutoKReturned == auto_k # Unset /\ "K_used" \in DOMAIN auto_k

\* C5: whenever auto_k_cv returns,
\* max(K_MIN, K_CONST_BOUNDS[0]) <= K_used <= K_CONST_BOUNDS[1].
KUsedWithinBounds ==
    AutoKReturned =>
        /\ Max(cfg.K_MIN, cfg.K_CONST_BOUNDS[1]) <= auto_k.K_used
        /\ auto_k.K_used <= cfg.K_CONST_BOUNDS[2]

StageOrder ==
    <<"validate", "blend_meta", "score_flat", "auto_k", "posterior", "mas_se_lb",
      "bt_soft", "compose", "coverage", "assemble">>

Started(stage) == \E k \in 1..Len(stages) : stages[k] = stage

\* C6: the stages run in the fixed order, none starts before the stage that
\* produces its inputs has finished, and a run without score_flat aborts after
\* the meta blend and before Auto-K, with no later stage and no ranking.
StagesInOrder ==
    /\ Len(stages) <= Len(StageOrder)
    /\ stages = SubSeq(StageOrder, 1, Len(stages))
    /\ Started("blend_meta") => v # Unset /\ v.ok
    /\ Started("auto_k") => meta # Unset /\ mats # Unset
    /\ Started("posterior") => AutoKReturned
    /\ Started("mas_se_lb") => post # Unset
    /\ Started("bt_soft") => mas_df # Unset
    /\ Started("compose") => bt # Unset /\ "bt_pct" \in DOMAIN bt
    /\ Started("coverage") => score_pct # Unset
    /\ Started("assemble") => cov # Unset
    /\ Returned => stages = StageOrder
    /\ (score_flat = None \/ IsEmpty(score_flat)) =>
           /\ ~Started("auto_k") /\ ~Returned /\ ranking = Unset
           /\ Started("score_flat") =>
                  /\ err = "MissingScoreFlat" /\ pc = "raised" /\ meta # Unset
                  /\ stages = SubSeq(StageOrder, 1, 3)

\* A run without score_flat has aborted
AbortedOnScoreFlat ==
    /\ err = "MissingScoreFlat"
    /\ stages = <<"validate", "blend_meta", "score_flat">>

AdvisoryIssues == {"WR symmetry off >1.0pp", "n_dir not symmetric"}

\* C7: run_mars raises the contract-validation error if and only if
\* validate_contract returned ok = false; it raises before any other stage
\* runs, also when score_flat is missing, and never when only advisory issues
\* were recorded.
ContractGate ==
    /\ err = "ContractValidation" <=> (v # Unset /\ ~v.ok)
    /\ err = "ContractValidation" =>
           /\ pc = "raised" /\ stages = <<"validate">>
           /\ meta = Unset /\ mats = Unset /\ ranking = Unset
    /\ (v # Unset /\ v.issues # <<>> /\ Range(v.issues) \subseteq AdvisoryIssues) =>
           err # "ContractValidation"

\* The contract error was raised on a run that also lacks score_flat
ContractErrorFirst ==
    /\ err = "ContractValidation"
    /\ score_flat = None

\* C8: validate_contract returns ok = false exactly when the matrices differ in
\* shape or in an axis, or one of them has a defined diagonal entry; a WR
\* direction-sum off by more than one point and an asymmetric N each add an
\* issue and leave ok as it is.
ContractVerdict ==
    v # Unset =>
        LET wr == filtered_wr
            nd == n_dir
            defined(df) == \E i \in 1..Min(Len(df.index), Len(df.columns)) :
                               ~IsNaN(df.val[<<df.index[i], df.columns[i]>>])
            both(df, a, b) == /\ {a, b} \subseteq Range(df.index) \cap Range(df.columns)
                              /\ ~IsNaN(df.val[<<a, b>>]) /\ ~IsNaN(df.val[<<b, a>>])
            labels(df) == Range(df.index) \cup Range(df.columns)
            cell(df, a, b) == IF a \in Range(df.index) /\ b \in Range(df.columns)
                              THEN <<Fill0(df.val[<<a, b>>])>> ELSE <<>>
            wr_off == \E a \in labels(wr), b \in labels(wr) :
                          /\ both(wr, a, b)
                          /\ Abs(wr.val[<<a, b>>] + wr.val[<<b, a>>] - 100 * ONE) > ONE
            nd_asym == \E a \in labels(nd), b \in labels(nd) : cell(nd, a, b) # cell(nd, b, a)
        IN  /\ v.ok <=> ~(\/ Len(wr.index) # Len(nd.index)
                          \/ Len(wr.columns) # Len(nd.columns)
                          \/ wr.index # nd.index \/ wr.columns # nd.columns
                          \/ defined(wr) \/ defined(nd))
            /\ wr_off <=> "WR symmetry off >1.0pp" \in Range(v.issues)
            /\ nd_asym <=> "n_dir not symmetric" \in Range(v.issues)

\* Matrices with a defined diagonal entry and no other defect were refused
DiagonalRefused ==
    /\ v # Unset /\ ~v.ok
    /\ v.issues = <<"n_dir diag not NaN">>

\* A weight vector on the axis that is a probability distribution: entries
\* non-negative, and a sum of 1 up to one unit of resolution per entry
IsDistribution(ax, p) ==
    /\ \A d \in Range(ax) : ~IsNaN(p[d]) /\ p[d] >= 0
    /\ VecSum(ax, p) <= ONE
    /\ VecSum(ax, p) >= ONE - Len(ax)

\* C9: the encounter-share vector and the blended weight vector that
\* blend_meta returns are each a probability distribution over the axis.
MetaWeightsAreDistributions ==
    meta # Unset =>
        /\ IsDistribution(AxisOf(filtered_wr), meta.p_enc)
        /\ IsDistribution(AxisOf(filtered_wr), meta.p_weights)

\* blend_meta returned on counts that are all zero with a usage table that
\* leaves a gap to fill
MetaBlendedOnZeroCounts ==
    /\ meta # Unset
    /\ \A d \in Range(AxisOf(filtered_wr)) : ColSum(n_dir, AxisOf(filtered_wr))[d] = 0
    /\ top_meta_df # None /\ ~IsEmpty(top_meta_df)
    /\ \E d \in Range(AxisOf(filtered_wr)) : meta.p_meta[d] # meta.p_enc[d]

\* C10: every pair bt_soft returns has w_ij + w_ji = n_eff within 1e-6 and both
\* weights strictly between 0 and n_eff; a pair that broke this would raise an
\* AssertionError and leave no result.
SoftPairsSane ==
    /\ (bt # Unset) =>
           \A k \in 1..Len(bt.pairs) :
               LET e == bt.pairs[k]
               IN  /\ Abs((e.w_ij + e.w_ji) - e.n_eff * ONE) <= 1
                   /\ 0 < e.w_ij /\ e.w_ij < e.n_eff * ONE
                   /\ 0 < e.w_ji /\ e.w_ji < e.n_eff * ONE
    /\ err = "AssertionError" => bt = Unset /\ ranking = Unset /\ pc = "raised"

\* bt_soft returned a fit on at least two soft pairs
SoftPairsReturned ==
    /\ pc = "compose"
    /\ Len(bt.pairs) >= 2
    /\ \E k \in 1..Len(bt.pairs) : bt.pairs[k].w_ij # bt.pairs[k].w_ji

\* The pairs of axis positions the pre-filter drops for their mean confidence
DroppedPairs(ax, N, p_hat, K, c) ==
    {q \in Range(PairIndex(ax)) : Edge(ax, N, p_hat, K, c, q[1], q[2]).status = "drop"}

\* Other counts and posteriors for one pair: <<N[a,b], N[b,a], p_hat[a,b], p_hat[b,a]>>
AltCells == {<<1, 1, 900, 100>>, <<0, 3, 500, 50>>, <<4, 4, 250, 750>>}

\* The frame df with the cells (a, b) and (b, a) replaced
WithPair(df, a, b, x, y) == WithCell(WithCell(df, a, b, x), b, a, y)

\* With the pair q still dropped under the counts and posteriors alt, bt_soft
\* computes r again
SameWithout(ax, N, p_hat, K, c, q, alt, r) ==
    q \in DroppedPairs(ax, WithPair(N, ax[q[1]], ax[q[2]], alt[1], alt[2]),
                       WithPair(p_hat, ax[q[1]], ax[q[2]], alt[3], alt[4]), K, c)
        => bt_soft(ax, WithPair(N, ax[q[1]], ax[q[2]], alt[1], alt[2]),
                   WithPair(p_hat, ax[q[1]], ax[q[2]], alt[3], alt[4]), K, c) = r

\* The state holds what bt_soft computes, r, and no dropped pair is in it or
\* bears on it
NoInfluence(ax, N, p_hat, K, c, r) ==
    /\ bt.bt_pct = r.bt_pct /\ bt.pairs = r.pairs /\ bt.diag = r.diag
    /\ \A q \in DroppedPairs(ax, N, p_hat, K, c) :
           /\ \A k \in 1..Len(r.pairs) :
                  {r.pairs[k].ai, r.pairs[k].aj} # {ax[q[1]], ax[q[2]]}
           /\ \A alt \in AltCells : SameWithout(ax, N, p_hat, K, c, q, alt, r)

\* C11: a pair the pre-filter drops is not among the pairs bt_soft returns, and
\* replacing its counts and posteriors by others with which it is still dropped
\* changes nothing of what bt_soft computes: the soft exponent, the pseudo-win
\* sums, the opponent lists and BT_% of every deck are the same.
DroppedPairHasNoInfluence ==
    pc = "compose" =>
        NoInfluence(AxisOf(filtered_wr), mats.N, post.p_hat, auto_k.K_used, cfg,
                    bt_soft(AxisOf(filtered_wr), mats.N, post.p_hat, auto_k.K_used, cfg))

\* bt_soft fitted some pairs and dropped another, whose counts can be replaced
DroppedPairAltered ==
    /\ pc = "compose" /\ Len(bt.pairs) >= 1
    /\ \E q \in DroppedPairs(AxisOf(filtered_wr), mats.N, post.p_hat, auto_k.K_used, cfg) :
           \E alt \in AltCells :
               /\ alt[1] # Loc(mats.N, AxisOf(filtered_wr)[q[1]], AxisOf(filtered_wr)[q[2]])
               /\ q \in DroppedPairs(AxisOf(filtered_wr),
                      WithPair(mats.N, AxisOf(filtered_wr)[q[1]], AxisOf(filtered_wr)[q[2]],
                               alt[1], alt[2]),
                      WithPair(post.p_hat, AxisOf(filtered_wr)[q[1]], AxisOf(filtered_wr)[q[2]],
                               alt[3], alt[4]),
                      auto_k.K_used, cfg)

\* C12: for K > 0 and 0 < mu < 1, every off-diagonal cell of p_hat, observed or
\* not, is (W + mu K) / (W + L + K) to the model's resolution and lies strictly
\* between 0 and 1, its var_hat is strictly positive, and the diagonal of both
\* frames is undefined.
PosteriorWellDefined ==
    (post # Unset /\ auto_k.K_used > 0 /\ 0 < cfg.MU /\ cfg.MU < ONE) =>
        \A a \in Range(post.p_hat.index), b \in Range(post.p_hat.index) :
            LET W   == Fill0(Loc(mats.S, a, b))
                L   == Fill0(Loc(mats.F, a, b))
                p   == Loc(post.p_hat, a, b)
                var == Loc(post.var_hat, a, b)
                den == (W + L) * ONE + auto_k.K_used
            IN  IF a = b THEN IsNaN(p) /\ IsNaN(var)
                ELSE /\ ~IsNaN(p) /\ ~IsNaN(var)
                     /\ 0 < p /\ p < ONE
                     /\ var > 0
                     /\ Abs(p * den - (W * ONE * ONE + cfg.MU * auto_k.K_used)) <= 2 * den

\* posterior_dir ran on matrices with an unobserved pair and with a cell that
\* holds losses only
PosteriorOnSparseCounts ==
    /\ post # Unset
    /\ \E a \in Range(post.p_hat.index), b \in Range(post.p_hat.index) :
           a # b /\ IsNaN(Loc(mats.S, a, b)) /\ Loc(post.p_hat, a, b) = cfg.MU
    /\ \E a \in Range(post.p_hat.index), b \in Range(post.p_hat.index) :
           a # b /\ Loc(mats.S, a, b) = 0 /\ Loc(mats.F, a, b) > 0

\* The defined values of the vector sv are all the same, and there is one
ConstantOn(ax, sv) ==
    /\ \E d \in Range(ax) : ~IsNaN(sv[d])
    /\ \A d \in Range(ax), e \in Range(ax) : (~IsNaN(sv[d]) /\ ~IsNaN(sv[e])) => sv[d] = sv[e]

\* The weight w of a z-score z
Weighted(w, z) == IF IsNaN(z) THEN NaN ELSE Quot(w * z, ONE)

\* Score_% of a z-score z
ScoreOfZ(z) == IF IsNaN(z) THEN NaN ELSE (100 * ONE * (LNS + ErfOfZ(z))) \div (2 * LNS)

\* C13: when LB_% and BT_% are each constant across the axis, compose gives
\* Score_% = 50 to every deck whatever alpha is; and a component that is constant
\* (standard deviation zero) adds a z-score of zero to every deck, so that the
\* score is that of the other component's z-scores alone.
ConstantComponentsScoreFifty ==
    (score_pct # Unset) =>
        LET ax == AxisOf(filtered_wr)
            lb == [d \in DOMAIN mas_df |-> mas_df[d].LB]
            b  == bt.bt_pct
        IN  /\ (ConstantOn(ax, lb) /\ ConstantOn(ax, b)) =>
                   \A d \in Range(ax) : score_pct[d] = 50 * ONE
            /\ ConstantOn(ax, lb) =>
                   \A d \in Range(ax) :
                       score_pct[d] = ScoreOfZ(Weighted(ONE - cfg.ALPHA_COMPOSITE, _z(ax, b)[d]))
            /\ ConstantOn(ax, b) =>
                   \A d \in Range(ax) :
                       score_pct[d] = ScoreOfZ(Weighted(cfg.ALPHA_COMPOSITE, _z(ax, lb)[d]))

\* compose ran on a constant LB_% and a constant BT_% with a weight other than
\* the default, and on a constant LB_% beside a BT_% that varies
ConstantComponentsComposed ==
    /\ score_pct # Unset
    /\ ConstantOn(AxisOf(filtered_wr), [d \in DOMAIN mas_df |-> mas_df[d].LB])
    /\ \/ ConstantOn(AxisOf(filtered_wr), bt.bt_pct) /\ cfg.ALPHA_COMPOSITE = 0
       \/ \E d \in Range(AxisOf(filtered_wr)) : score_pct[d] > 60 * ONE

\* C14: mas_se_lb reports MAS_%, SE_% and LB_% as undefined for a deck with no
\* observed opponent, and as numbers for a deck with at least one.
UnobservedDeckUndefined ==
    (mas_df # Unset /\ mats # Unset) =>
        \A d \in Range(AxisOf(filtered_wr)) :
            IF HasObservedOpponent(d)
            THEN ~IsNaN(mas_df[d].MAS) /\ ~IsNaN(mas_df[d].SE) /\ ~IsNaN(mas_df[d].LB)
            ELSE IsNaN(mas_df[d].MAS) /\ IsNaN(mas_df[d].SE) /\ IsNaN(mas_df[d].LB)

\* C15: under the gap policy "uniform", a usage table whose mass on the axis is
\* s with 0 < s < 1 gives every deck of the axis its listed share plus (1 - s)/T,
\* a deck the table does not list included; the vector sums to 1, and a deck
\* without a listed share has a strictly positive weight.
UniformGapSpreadOverAxis ==
    LET ax == AxisOf(filtered_wr)
        p  == OnAxisShares(ax, top_meta_df)
        s  == VecSum(ax, p)
    IN  (meta # Unset /\ cfg.META_GAP_POLICY = "uniform" /\ 0 < s /\ s < ONE) =>
            /\ \A d \in Range(ax) :
                   /\ Abs(meta.p_meta[d] - (p[d] + (ONE - s) \div Len(ax))) <= 2
                   /\ p[d] = 0 => meta.p_meta[d] > 0
            /\ Abs(VecSum(ax, meta.p_meta) - ONE) <= Len(ax)

\* blend_meta ran with the policy "uniform" on a table that lists two of the
\* three decks of the axis and leaves a gap
UniformGapTwoOfThree ==
    /\ meta # Unset /\ cfg.META_GAP_POLICY = "uniform"
    /\ AxisOf(filtered_wr) = Axis
    /\ OnAxisShares(Axis, top_meta_df)["X"] > 0
    /\ OnAxisShares(Axis, top_meta_df)["Y"] > 0
    /\ OnAxisShares(Axis, top_meta_df)["Z"] = 0
    /\ VecSum(Axis, OnAxisShares(Axis, top_meta_df)) < ONE
    /\ meta.p_meta["Z"] > 0

\* The number of opponents of deck a with games against it in N
OppUsed(N, ax, a) == Cardinality({b \in Range(ax) : b # a /\ Fill0(Loc(N, a, b)) > 0})

\* C16: coverage_tables has one row per deck A with Opp_used the number of
\* B # A with N[A,B] > 0, Opp_total = T - 1, Missing = Opp_total - Opp_used and,
\* where the deck has opponents at all, Coverage_% = 100 * Opp_used / Opp_total;
\* 0 <= Opp_used <= Opp_total, and the missing-pairs list has Missing[A] rows
\* with Deck = A.
CoverageCounts ==
    (cov # Unset) =>
        LET ax == AxisOf(filtered_wr)
            df == cov.coverage_df
        IN  /\ Len(df) = Len(ax)
            /\ \A a \in Range(ax) : \E k \in 1..Len(df) : df[k].Deck = a
            /\ \A k \in 1..Len(df) :
                   /\ df[k].Opp_used = OppUsed(mats.N, ax, df[k].Deck)
                   /\ df[k].Opp_total = Len(ax) - 1
                   /\ df[k].Missing = df[k].Opp_total - df[k].Opp_used
                   /\ 0 <= df[k].Opp_used /\ df[k].Opp_used <= df[k].Opp_total
                   /\ df[k].Opp_total > 0 =>
                          df[k].Coverage = (100 * ONE * df[k].Opp_used) \div df[k].Opp_total
                   /\ Cardinality({q \in 1..Len(cov.missing_pairs_long) :
                                      cov.missing_pairs_long[q].Deck = df[k].Deck})
                          = df[k].Missing

\* coverage_tables ran on three decks of which one has played one of its two
\* opponents: Opp_used = 1, Opp_total = 2, Coverage_% = 50
CoverageOneOfTwo ==
    /\ cov # Unset
    /\ \E k \in 1..Len(cov.coverage_df) :
           /\ cov.coverage_df[k].Opp_used = 1 /\ cov.coverage_df[k].Opp_total = 2
           /\ cov.coverage_df[k].Coverage = 50 * ONE /\ cov.coverage_df[k].Missing = 1

\* No off-diagonal cell of N has games
NoObservedCell(N, ax) ==
    \A a \in Range(ax), b \in Range(ax) : a # b => Fill0(Loc(N, a, b)) <= 0

\* Every observed cell keeps no game for the test after the split
NoTestMass(S, F, N, ax, rho) ==
    \A a \in Range(ax), b \in Range(ax) :
        (a # b /\ Fill0(Loc(N, a, b)) > 0) =>
            LET sp == _split_counts(Loc(S, a, b), Loc(F, a, b), rho)
            IN  sp[3] + sp[4] = 0

\* C17: auto_k_cv raises, and returns no K, exactly when no off-diagonal cell has
\* N > 0 or when every observed cell is left without test mass by the split; in
\* every other case it goes on and returns a result with a K_used.
AutoKRaisesExactly ==
    (mats # Unset /\ pc # "auto_k") =>
        LET ax == AxisOf(filtered_wr)
            noObs  == NoObservedCell(mats.N, ax)
            noTest == ~noObs /\ NoTestMass(mats.S, mats.F, mats.N, ax, cfg.RHO_TEST)
        IN  /\ (err = "AutoK: no observed cells") <=> noObs
            /\ (err = "AutoK: no trials remain in test") <=> noTest
            /\ (noObs \/ noTest) => pc = "raised" /\ auto_k = Unset
            /\ ~(noObs \/ noTest) =>
                   /\ err = "none" /\ auto_k # Unset
                   /\ pc = "auto_k_expand" \/ auto_k.K_used > 0

\* auto_k_cv raised for want of test mass on cells that are observed
AutoKRaisedOnSplit ==
    /\ err = "AutoK: no trials remain in test"
    /\ ~NoObservedCell(mats.N, AxisOf(filtered_wr))

\* The pre-filter keeps none of the pairs
NoPairSurvives(ax, N, p_hat, K, c) ==
    \A q \in Range(PairIndex(ax)) : Edge(ax, N, p_hat, K, c, q[1], q[2]).status # "keep"

\* C18: when no pair survives the pre-filter, bt_soft returns BT_% = 50 for
\* every deck, no pairs and diagnostics with kept = 0; it does not raise and the
\* fit is not run (no strengths, no sweep).
FallbackWhenNoPairSurvives ==
    (pc # "bt_soft" /\ post # Unset /\ mats # Unset /\ "bt_soft" \in Range(stages)
       /\ NoPairSurvives(AxisOf(filtered_wr), mats.N, post.p_hat, auto_k.K_used, cfg)) =>
        /\ err = "none" /\ pc # "raised" /\ pc # "bt_mm"
        /\ bt # Unset
        /\ \A d \in Range(AxisOf(filtered_wr)) : bt.bt_pct[d] = 50 * ONE
        /\ bt.pairs = <<>>
        /\ bt.diag.kept = 0
        /\ DOMAIN bt = {"bt_pct", "diag", "pairs"}

\* bt_soft fell back on data with games in them: every pair that was played was
\* dropped
FellBackOnDroppedPairs ==
    /\ pc = "compose" /\ bt.pairs = <<>>
    /\ bt.diag.dropped >= 1

\* The reconciled probability of the pair (a, b) as the observed directions give
\* it: the average of p_hat[a,b] and 1 - p_hat[b,a] when both have games, the
\* value of the one direction that has games otherwise
ObservedReconciled(N, p_hat, a, b) ==
    IF Loc(N, a, b) > 0 /\ Loc(N, b, a) > 0
    THEN (Loc(p_hat, a, b) + (ONE - Loc(p_hat, b, a))) \div 2
    ELSE IF Loc(N, a, b) > 0 THEN Loc(p_hat, a, b)
    ELSE ONE - Loc(p_hat, b, a)

\* C19: the reconciled probability of every kept pair, w_ij / n_eff, is made of
\* the observed directions only: the posterior of a direction without games,
\* which is the prior alone, does not enter it.
ReconciledFromObservedOnly ==
    (bt # Unset /\ mats # Unset /\ post # Unset) =>
        \A k \in 1..Len(bt.pairs) :
            bt.pairs[k].w_ij =
                Clip(ObservedReconciled(mats.N, post.p_hat, bt.pairs[k].ai, bt.pairs[k].aj),
                     1, ONE - 1) * bt.pairs[k].n_eff

\* The share of the bootstrap picks that hit K_star is at least pct percent
HitsAtLeast(K_boot, K_star, pct) ==
    100 * Cardinality({i \in 1..Len(K_boot) : K_boot[i] = K_star}) >= pct * Len(K_boot)

\* IQR / median of the bootstrap picks is above pct percent (median > 0)
SpreadAbove(K_boot, pct) ==
    /\ Median(K_boot) > 0
    /\ 100 * (Percentile(K_boot, 3, 4) - Percentile(K_boot, 1, 4)) > pct * Median(K_boot)

\* C20: auto_k_cv returns one of three reasons.  best-boundary-override exactly
\* when K_star is the grid's minimum or maximum and the bootstrap is stable
\* (frequency >= 0.80, median > 0, IQR/median <= 0.05); failing that,
\* boot-clipped exactly when K_star is at a boundary, or IQR/median > 0.35, or
\* the frequency is below 0.50; best in the remaining case only, so that best
\* implies K_star strictly inside the grid.
ReasonFollowsRules ==
    AutoKReturned =>
        LET g      == auto_k.K_grid
            atB    == auto_k.K_star = g[1] \/ auto_k.K_star = g[Len(g)]
            stable == /\ HitsAtLeast(auto_k.K_boot, auto_k.K_star, 80)
                      /\ Median(auto_k.K_boot) > 0
                      /\ ~SpreadAbove(auto_k.K_boot, 5)
            shaky  == \/ atB
                      \/ SpreadAbove(auto_k.K_boot, 35)
                      \/ ~HitsAtLeast(auto_k.K_boot, auto_k.K_star, 50)
        IN  /\ auto_k.reason \in {"best-boundary-override", "boot-clipped", "best"}
            /\ (auto_k.reason = "best-boundary-override") <=> (atB /\ stable)
            /\ (auto_k.reason = "boot-clipped") <=> (~(atB /\ stable) /\ shaky)
            /\ (auto_k.reason = "best") <=> (~(atB /\ stable) /\ ~shaky)
            /\ (auto_k.reason = "best") => (g[1] < auto_k.K_star /\ auto_k.K_star < g[Len(g)])

\* auto_k_cv returned boot-clipped for a K_star at the boundary of the grid that
\* the bootstrap did not support
BootClippedAtBoundary ==
    /\ AutoKReturned
    /\ auto_k.reason = "boot-clipped"
    /\ auto_k.K_star = auto_k.K_grid[Len(auto_k.K_grid)] \/ auto_k.K_star = auto_k.K_grid[1]
    /\ ~HitsAtLeast(auto_k.K_boot, auto_k.K_star, 80)

\* LL[i] is within the relative tolerance of the largest value of LL
WithinTol(LL, i, c) ==
    LET LL_max == CHOOSE m \in Range(LL) : \A x \in Range(LL) : x <= m
    IN  LL_max - LL[i] <= (c.REL_TOL_LL * Max(LNS, Abs(LL_max))) \div ONE

\* K_star is the smallest value of the grid within the tolerance of the maximum
SmallestWithinTol(a, c) ==
    \E i \in 1..Len(a.K_grid) :
        /\ a.K_grid[i] = a.K_star
        /\ WithinTol(a.LL, i, c)
        /\ \A j \in 1..Len(a.K_grid) : WithinTol(a.LL, j, c) => a.K_grid[i] <= a.K_grid[j]

RECURSIVE ResampleAt(_, _, _)
\* The cells of the r-th bootstrap resample of n cells, for a generator that is
\* in state st before the first resample
ResampleAt(st, r, n) ==
    IF r = 1 THEN Integers_(st, n, n).draws
    ELSE ResampleAt(Integers_(st, n, n).st, r - 1, n)

\* K is the largest-likelihood value of the local grid on the resample subset,
\* and the smallest such value
SmallestArgmaxOn(K, grid, subset, a, c) ==
    /\ K \in Range(grid)
    /\ \A k \in Range(grid) :
           \/ ll_pred_total(k, subset, a.splits, c.MU) < ll_pred_total(K, subset, a.splits, c.MU)
           \/ /\ ll_pred_total(k, subset, a.splits, c.MU) = ll_pred_total(K, subset, a.splits, c.MU)
              /\ K <= k

BootstrapTies(a, K_boot, c) ==
    \A r \in 1..Len(K_boot) :
        SmallestArgmaxOn(K_boot[r], LocalGrid(a),
                         [j \in 1..Len(a.idx_used) |->
                             a.idx_used[ResampleAt(default_rng(c), r, Len(a.idx_used))[j]]],
                         a, c)

\* C21: every selection of auto_k_cv leaves K_star at the smallest grid value K
\* with LL_max - LL(K) <= rel_tol * max(1, |LL_max|), LL_max the maximum over
\* the grid, so that no smaller grid value is within the tolerance; and every
\* bootstrap resample picks the value of the local grid with the largest
\* log-likelihood on the resample, the smallest one among exact ties.
KStarSmallestWithinTolerance ==
    [][/\ (pc' = "auto_k_expand") => SmallestWithinTol(auto_k', cfg)
       /\ (pc = "auto_k_expand" /\ pc' = "posterior") =>
              BootstrapTies(auto_k, auto_k'.K_boot, cfg)]_vars

\* A selection in which the tolerance decided: K_star is not the grid value of
\* the largest log-likelihood, which lies at a larger K
ToleranceChoseSmallerK ==
    /\ pc = "auto_k_expand"
    /\ \E j \in 1..Len(auto_k.K_grid) :
           /\ auto_k.LL[j] > auto_k.LL[auto_k.best_idx]
           /\ auto_k.K_grid[j] > auto_k.K_star

\* At most 2 extensions were made, the grid lies between the floor
\* max(K_MIN, user lower bound) and the user's upper bound, and K_star is one of
\* its values
GridWithinBounds(a, c) ==
    /\ a.expansions \in 0..2
    /\ \A i \in 1..Len(a.K_grid) :
           /\ Max(c.K_MIN, c.K_CONST_BOUNDS[1]) <= a.K_grid[i]
           /\ a.K_grid[i] <= c.K_CONST_BOUNDS[2]
    /\ a.K_star \in Range(a.K_grid)

\* From a to b the grid was extended once: K_star was the minimum of the grid,
\* that minimum was above the floor, and the one point max(minimum / 2, floor)
\* was added
ExtendedOnce(a, b, c) ==
    /\ a.expansions < 2
    /\ b.expansions = a.expansions + 1
    /\ a.K_star = a.K_grid[1]
    /\ \A i \in 1..Len(a.K_grid) : a.K_grid[1] <= a.K_grid[i]
    /\ a.K_grid[1] > Max(c.K_MIN, c.K_CONST_BOUNDS[1])
    /\ Range(b.K_grid) =
           Range(a.K_grid) \cup {Max(a.K_grid[1] \div 2, Max(c.K_MIN, c.K_CONST_BOUNDS[1]))}
    /\ Len(b.K_grid) = Len(a.K_grid) + 1

\* C22: the downward expansion of auto_k_cv's grid makes at most 2 extensions;
\* an extension is made only while the selected K is the minimum of the grid and
\* that minimum is above the floor max(K_MIN, user lower bound), and it adds the
\* single point max(grid_min / 2, floor); after any number of extensions every
\* grid value is within [floor, user upper bound] and K_star is in the grid.
GridExpansionBounded ==
    [][/\ (pc' = "auto_k_expand" \/ (pc = "auto_k_expand" /\ pc' = "posterior")) =>
              GridWithinBounds(auto_k', cfg)
       /\ (pc = "auto_k_expand" /\ pc' = "auto_k_expand") =>
              ExtendedOnce(auto_k, auto_k', cfg)]_vars

\* The cap ended the expansion: after 2 extensions the selected K is still the
\* minimum of the grid, above the floor
ExpansionCapReached ==
    /\ pc = "auto_k_expand"
    /\ auto_k.expansions = 2
    /\ auto_k.K_star = auto_k.K_grid[1]
    /\ auto_k.K_grid[1] > Max(cfg.K_MIN, cfg.K_CONST_BOUNDS[1])

\* The state auto_k_cv is in after it split the observed cells
SplitsMade == pc = "auto_k_expand" /\ auto_k # Unset /\ "splits" \in DOMAIN auto_k

\* The held-out size of the i-th observed cell
HeldOut(a, i) == a.splits[i][3] + a.splits[i][4]

\* C23: with rho in (0, 1), a cell of N = W + L >= 2 games gets a held-out size
\* Wte + Lte between 1 and N - 1, so that its train set is never empty, and of
\* at least 2 when N >= 4; a cell of N = 1 gets a held-out size of 0 and is not
\* among the cells the likelihood is evaluated on.
HeldOutSizeWithinCell ==
    (SplitsMade /\ 0 < cfg.RHO_TEST /\ cfg.RHO_TEST < ONE) =>
        \A i \in 1..Len(auto_k.splits) :
            /\ auto_k.N_vec[i] >= 2 =>
                   /\ 1 <= HeldOut(auto_k, i) /\ HeldOut(auto_k, i) <= auto_k.N_vec[i] - 1
                   /\ auto_k.splits[i][1] + auto_k.splits[i][2] >= 1
            /\ auto_k.N_vec[i] >= 4 => HeldOut(auto_k, i) >= 2
            /\ auto_k.N_vec[i] = 1 =>
                   /\ HeldOut(auto_k, i) = 0
                   /\ i \notin Range(auto_k.idx_used)

\* A cell of 1 game and a cell of 4 or more games were split in one call, with
\* rho in (0, 1) so small that the held-out size of the larger was raised to 2
SplitOneAndMany ==
    /\ SplitsMade /\ 0 < cfg.RHO_TEST /\ cfg.RHO_TEST < ONE
    /\ \E i, j \in 1..Len(auto_k.splits) :
           /\ auto_k.N_vec[i] = 1
           /\ auto_k.N_vec[j] >= 4 /\ HeldOut(auto_k, j) = 2
           /\ RoundDiv(cfg.RHO_TEST * auto_k.N_vec[j], ONE) < 2

\* The clamped test size of a cell of N games
TestSize(N, rho) ==
    LET tt == RoundDiv(rho * N, ONE)
    IN  Min(Max(1, IF N >= 4 THEN Max(tt, 2) ELSE tt), Max(0, N - 1))

\* (Wtr, Ltr, Wte, Lte) = sp are non-negative, add up to W and to L, and hold
\* out the clamped test size
Conserves(sp, W, L, rho) ==
    /\ \A k \in 1..4 : sp[k] \in Nat
    /\ sp[1] + sp[3] = W /\ sp[2] + sp[4] = L
    /\ sp[3] <= W /\ sp[4] <= L
    /\ sp[3] + sp[4] = IF W + L <= 0 THEN 0 ELSE TestSize(W + L, rho)

\* C24: for all non-negative integers W and L and every rho, _split_counts
\* returns four non-negative integers with Wtr + Wte = W, Ltr + Lte = L,
\* 0 <= Wte <= W, 0 <= Lte <= L, and Wte + Lte equal to the clamped test size:
\* the clamp of the test losses to [0, L] discards no held-out unit.
SplitConservesCounts ==
    SplitsMade =>
        LET cells == ObservedCells(mats.N, mats.S.index)
        IN  /\ Len(auto_k.splits) = Len(cells)
            /\ \A i \in 1..Len(cells) :
                   Conserves(auto_k.splits[i], Loc(mats.S, cells[i][1], cells[i][2]),
                             Loc(mats.F, cells[i][1], cells[i][2]), cfg.RHO_TEST)
            /\ Conserves(_split_counts(0, 0, cfg.RHO_TEST), 0, 0, cfg.RHO_TEST)

\* A cell of wins only and a cell of losses only were split, and each held out
\* games
SplitOneSidedCells ==
    /\ SplitsMade
    /\ \E i, j \in 1..Len(auto_k.splits) :
           /\ auto_k.splits[i][1] + auto_k.splits[i][3] = 0 /\ auto_k.splits[i][4] >= 2
           /\ auto_k.splits[j][2] + auto_k.splits[j][4] = 0 /\ auto_k.splits[j][3] >= 2

\* The opponents of deck a with games against it: b # a and N[a, b] > 0
ObservedOpponents(N, ax, a) ==
    {b \in Range(ax) : b # a /\ ~IsNaN(Loc(N, a, b)) /\ Loc(N, a, b) > 0}

\* w is a distribution over the set obs: non-negative, zero outside obs, and of
\* sum 1 up to the rounding of one unit of 1/ONE per member
DistributionOver(ax, w, obs) ==
    /\ \A b \in Range(ax) : ~IsNaN(w[b]) /\ w[b] >= 0
    /\ \A b \in Range(ax) \ obs : w[b] = 0
    /\ VecSum(ax, w) <= ONE
    /\ VecSum(ax, w) >= ONE - Cardinality(obs)

\* C25: for every deck A with at least one observed opponent, the weights
\* mas_se_lb uses are non-negative, zero for A itself and for every opponent B
\* with N[A,B] <= 0 or undefined, and sum to 1 over the observed opponents; when
\* the meta weights of the observed opponents sum to zero, they are uniform,
\* 1 / (number of observed opponents), over those opponents.
MasWeightsRenormalised ==
    (mas_df # Unset /\ mats # Unset /\ meta # Unset /\ post # Unset) =>
        \A a \in Range(post.p_hat.index) :
            LET obs == ObservedOpponents(mats.N, post.p_hat.index, a)
            IN  obs # {} =>
                    /\ DistributionOver(post.p_hat.index, mas_df[a].w, obs)
                    /\ (\A b \in obs : meta.p_weights[b] = 0) =>
                           \A b \in obs : mas_df[a].w[b] = ONE \div Cardinality(obs)

\* A deck with two observed opponents of meta weight zero got the weight 1/2 on each
MasWeightsUniformOnZeroMeta ==
    /\ mas_df # Unset /\ mats # Unset /\ meta # Unset
    /\ \E a \in Range(Axis) :
           /\ Cardinality(ObservedOpponents(mats.N, Axis, a)) = 2
           /\ \A b \in ObservedOpponents(mats.N, Axis, a) :
                  meta.p_weights[b] = 0 /\ mas_df[a].w[b] = ONE \div 2
           /\ meta.p_weights[a] > 0

\* The unordered pairs of the axis, in axis order, with games in a direction
PairsWithVolume(ax, N) ==
    {<<ax[i], ax[j]>> : i, j \in 1..Len(ax)} \cap
    {q \in Range(ax) \X Range(ax) :
        /\ \E i, j \in 1..Len(ax) : i < j /\ ax[i] = q[1] /\ ax[j] = q[2]
        /\ Loc(N, q[1], q[2]) > 0 \/ Loc(N, q[2], q[1]) > 0}

\* N / (N + K) of a count n > 0, in units of 1/(ONE * ONE)
Confidence(n, K) == (n * ONE * ONE) \div (n * ONE + K)

\* The mean of N / (N + K) over the directions of the pair q that have games
MeanConfidence(N, K, q) ==
    IF Loc(N, q[1], q[2]) > 0 /\ Loc(N, q[2], q[1]) > 0
    THEN (Confidence(Loc(N, q[1], q[2]), K) + Confidence(Loc(N, q[2], q[1]), K)) \div 2
    ELSE Confidence(Max(Loc(N, q[1], q[2]), Loc(N, q[2], q[1])), K)

\* The observed directions of the pair q all have the volume n
SameVolume(N, q, n) ==
    /\ n > 0
    /\ Loc(N, q[1], q[2]) \in {0, n} /\ Loc(N, q[2], q[1]) \in {0, n}
    /\ Loc(N, q[1], q[2]) = n \/ Loc(N, q[2], q[1]) = n

\* The pairs bt_soft kept
KeptPairs(b) == {<<b.pairs[k].ai, b.pairs[k].aj>> : k \in 1..Len(b.pairs)}

\* kept and dropped partition the pairs with games by the threshold on the mean
\* confidence
PartitionedByConfidence(b, ax, N, K, c) ==
    /\ KeptPairs(b) = {q \in PairsWithVolume(ax, N) :
                          MeanConfidence(N, K, q) >= Confidence(c.N_MIN_BT_TARGET, K)}
    /\ b.diag.kept = Cardinality(KeptPairs(b))
    /\ b.diag.kept + b.diag.dropped = Cardinality(PairsWithVolume(ax, N))
    /\ \A q \in PairsWithVolume(ax, N), n \in 1..MaxN :
           SameVolume(N, q, n) => (q \in KeptPairs(b) <=> n >= c.N_MIN_BT_TARGET)

\* C26: the pre-filter of bt_soft partitions the unordered pairs with games in
\* a direction into kept and dropped: a pair is kept if and only if the mean of
\* N / (N + K) over its directions with N > 0 is at least N_min / (N_min + K),
\* so a pair whose observed directions all have the volume n is kept exactly
\* when n >= N_min; a pair without games is counted neither as kept nor as
\* dropped, and kept + dropped is the number of pairs with games.
PrefilterPartitionsPairs ==
    (bt # Unset /\ "diag" \in DOMAIN bt /\ "pairs" \in DOMAIN bt
        /\ mats # Unset /\ auto_k # Unset) =>
        PartitionedByConfidence(bt, AxisOf(filtered_wr), mats.N, auto_k.K_used, cfg)

\* A pair with N_min games or more in one direction and fewer in the other was
\* dropped, next to a kept pair and a pair without games
UnevenPairDropped ==
    /\ bt # Unset /\ "diag" \in DOMAIN bt /\ mats # Unset
    /\ bt.diag.kept = 1 /\ bt.diag.dropped = 1
    /\ Loc(mats.N, "X", "Y") >= cfg.N_MIN_BT_TARGET
    /\ Loc(mats.N, "Y", "X") \in 1..(cfg.N_MIN_BT_TARGET - 1)
    /\ <<"X", "Y">> \notin KeptPairs(bt)

\* The MM loop is running
InMMLoop == pc = "bt_mm"

\* The iterate of the MM loop: at most MAX_BT_ITER sweeps were made and every
\* deck's ability is strictly positive
IterateSane(b, ax, c) ==
    /\ b.iter \in 0..c.MAX_BT_ITER
    /\ \A d \in Range(ax) : ~IsNaN(b.pi[d]) /\ b.pi[d] > 0

\* C27: the Bradley-Terry MM fit always terminates: its loop comes to the end
\* of its sweeps, of which it makes at most MAX_BT_ITER and none once the
\* largest relative change is below BT_TOL, and at the cap it returns the last
\* iterate without raising; in every iterate the ability of every deck, a deck
\* without a kept edge included, is strictly positive.
MMFitTerminates ==
    /\ [](InMMLoop => IterateSane(bt, AxisOf(filtered_wr), cfg))
    /\ [][/\ (InMMLoop /\ InMMLoop') =>
                 (~bt.converged /\ bt.iter < cfg.MAX_BT_ITER /\ bt'.iter = bt.iter + 1)
          /\ (InMMLoop /\ ~InMMLoop') =>
                 /\ bt.converged \/ bt.iter = cfg.MAX_BT_ITER
                 /\ err' = "none" /\ pc' = "compose"
                 /\ bt'.pi = bt.pi /\ bt'.iter = bt.iter]_vars
    /\ (InMMLoop ~> (InMMLoop /\ (bt.converged \/ bt.iter = cfg.MAX_BT_ITER)))

\* The cap ended the loop: MAX_BT_ITER sweeps were made without convergence,
\* and the last iterate differs from the first
MMCapReached ==
    /\ InMMLoop
    /\ bt.iter = cfg.MAX_BT_ITER /\ ~bt.converged
    /\ \E d \in Range(AxisOf(filtered_wr)) : bt.pi[d] # ONE

\* The row of deck d in a frame of rows
RowOf(rows, d) == rows[CHOOSE k \in 1..Len(rows) : rows[k].Deck = d]

\* C28: in the ranking run_mars returns, Opp_used of every deck A counts only
\* opponents B # A, a mirror entry N[A,A] of the matrices derived from
\* score_flat never being counted, so that Opp_used <= Opp_total and
\* Coverage_% <= 100, and Opp_used and Coverage_% are those of the deck's row
\* in the coverage table of the same run.
RankingCoverageCountsOpponents ==
    Returned =>
        \A k \in 1..Len(ranking.rows) :
            LET r == ranking.rows[k]
            IN  /\ r.Opp_used = Cardinality({b \in Range(AxisOf(filtered_wr)) \ {r.Deck} :
                                                Fill0(Loc(mats.N, r.Deck, b)) > 0})
                /\ r.Opp_used <= r.Opp_total
                /\ r.Coverage <= 100 * ONE
                /\ r.Opp_used = RowOf(cov.coverage_df, r.Deck).Opp_used
                /\ r.Coverage = RowOf(cov.coverage_df, r.Deck).Coverage

\* A value a stage has produced is the same after the step
KeptOnce(x, y) == x # Unset => y = x

\* C29: run_mars treats its inputs as immutable: no step of a run, successful or
\* aborted, changes filtered_wr, n_dir, score_flat or top_meta_df, and no stage
\* changes a value an earlier stage of the same run produced (the meta weights,
\* the W/L/N matrices, p_hat and var_hat): a stage only produces new values.
InputsAndStageValuesKept ==
    [][/\ filtered_wr' = filtered_wr /\ n_dir' = n_dir
       /\ score_flat' = score_flat /\ top_meta_df' = top_meta_df
       /\ (run' = run) =>
              /\ KeptOnce(meta, meta') /\ KeptOnce(mats, mats') /\ KeptOnce(post, post')]_vars

\* A run returned its ranking from matrices S and F that still hold an
\* undefined cell off the diagonal, all stages from the posterior on having run
ReturnedWithUndefinedCells ==
    /\ Returned /\ ranking # Unset /\ mats # Unset /\ post # Unset /\ meta # Unset
    /\ \E a, b \in Range(mats.S.index) :
           a # b /\ IsNaN(Loc(mats.S, a, b)) /\ IsNaN(Loc(mats.F, a, b))

\* filter_wr_nan_iterative has returned
NanFilterReturned == nan_filter # Unset /\ nan_filter.pc = "returned"

\* The number of undefined cells of deck d's row of df off the diagonal
OffDiagNaN(df, d) ==
    Cardinality({c \in Range(df.columns) \ {d} : IsNaN(Loc(df, d, c))})

\* The threshold fixed from the size T0 of the original axis
AllowedFromOriginal(nf) ==
    LET base == (Len(nf.wr.index) - 1) * nf.max_nan_ratio
    IN  Max(nf.min_nan_allowed,
            IF nf.use_ceil THEN (base + ONE - 1) \div ONE ELSE base \div ONE)

\* What holds on return: at most 2 decks remain or every remaining deck is
\* within the threshold; dropped and remaining partition the original axis
NanFilterResult(nf) ==
    /\ nf.allowed = AllowedFromOriginal(nf)
    /\ \/ Len(nf.cur.index) <= 2
       \/ \A d \in Range(nf.cur.index) : OffDiagNaN(nf.cur, d) <= nf.allowed
    /\ Range(nf.dropped) \cap Range(nf.cur.index) = {}
    /\ Range(nf.dropped) \cup Range(nf.cur.index) = Range(nf.wr.index)
    /\ Len(nf.dropped) + Len(nf.cur.index) = Len(nf.wr.index)
    /\ nf.cur = Reindex(nf.wr, nf.cur.index)

\* From a to b one iteration ran: it dropped at least one deck, exactly the
\* decks of the largest excess over the threshold, and kept the threshold
NanFilterIteration(a, b) ==
    LET gone == Range(a.cur.index) \ Range(b.cur.index)
    IN  /\ gone # {}
        /\ Len(b.cur.index) < Len(a.cur.index)
        /\ b.allowed = a.allowed
        /\ \A d \in gone : OffDiagNaN(a.cur, d) > a.allowed
        /\ gone = {d \in Range(a.cur.index) :
                      /\ OffDiagNaN(a.cur, d) > a.allowed
                      /\ \A e \in Range(a.cur.index) : OffDiagNaN(a.cur, e) <= OffDiagNaN(a.cur, d)}
        /\ b.dropped = a.dropped \o SelectSeq(a.cur.index, LAMBDA d : d \in gone)

\* C30: filter_wr_nan_iterative always terminates, every iteration removing at
\* least one deck; on return at most 2 decks remain or every remaining deck has
\* at most allowed undefined cells off the diagonal, allowed =
\* max(min_nan_allowed, floor-or-ceil((T0 - 1) * max_nan_ratio)) being fixed from
\* the size T0 of the original axis and never recomputed; the dropped list and
\* the remaining axis are disjoint and together the original axis; and each
\* iteration drops exactly the decks of the largest excess.
NanFilterTerminates ==
    /\ [](NanFilterReturned => NanFilterResult(nan_filter))
    /\ [][(nan_filter.pc = "loop" /\ nan_filter'.pc = "loop") =>
              NanFilterIteration(nan_filter, nan_filter')]_vars
    /\ <>NanFilterReturned

\* A return after two iterations: the deck of the largest excess was dropped
\* first, and a deck that was over the threshold by less stayed for the
\* second iteration
NanFilterDroppedTwice ==
    /\ NanFilterReturned
    /\ nan_filter.it = 2
    /\ \E d \in Range(nan_filter.dropped) :
           /\ d # nan_filter.dropped[1]
           /\ OffDiagNaN(nan_filter.wr, d) > nan_filter.allowed
           /\ OffDiagNaN(nan_filter.wr, d) < OffDiagNaN(nan_filter.wr, nan_filter.dropped[1])

=============================================================================
